---- MODULE Spec2Model ----
(***************************************************************************)
(* Verification model of the portfolio backend.                            *)
(*                                                                         *)
(*  - routes/stats.js  GET /github : cache-aside GitHub statistics with    *)
(*    stale fallback, run by concurrent request handlers against the       *)
(*    github_stats table.                                                  *)
(*  - the pure derivations of that handler (language shares, top repos).   *)
(*                                                                         *)
(* Time is counted in minutes.  Every "await" of a handler is one step of  *)
(* the model, so handlers interleave exactly where the code yields.        *)
(***************************************************************************)
EXTENDS Integers, Sequences, FiniteSets, TLC

\* ------------------------------------------------------------------ bounds
MaxTime == 20           \* the clock stops advancing here (minutes)
MaxWorld == 1           \* upstream data changes at most this many times
RepoCount == 2          \* repositories the upstream account owns
MaxLangResults == 2     \* language responses aggregated at once
MaxBytes == 2           \* bytes of one language in one response
MaxStars == 1           \* stars of one repository
MaxEntities == 2        \* projects created, and skills created
MaxUploads == 3         \* files uploaded over a run
MaxTitleLen == 4        \* characters of a blog title
MaxPosts == 2           \* blog posts created, the earlier one included
MaxComments == 2        \* comments created, the earlier one included
MaxBlogCalls == 2       \* requests to the blog routes over a run
MaxJourney == 2         \* journey items created over a run
MaxMessages == 2        \* contact messages stored over a run
MaxChats == 3           \* chat exchanges stored over a run

\* ------------------------------------------------------- program constants
GITHUB_USERNAME == "azadarx"
CACHE_MINUTES == 15     \* INTERVAL '15 minutes'
MsPerMinute == 60000    \* Date.now() and getTime() count milliseconds
TopN == 5               \* .slice(0, 5)
LangRepoLimit == 20     \* reposData.slice(0, 20)
EventLimit == 5         \* eventsResponse.data.slice(0, 5)

Reqs == {1, 2}          \* two GET /github requests, running concurrently
\* a repository list long enough to be cut to TopN with a fork left over
MaxRepos == TopN + 2
ClockSteps == {10}      \* minutes the clock advances by in one step
LangNames == {"JavaScript", "Python", "HTML"}

\* ------------------------------------------------------------ pure helpers
Min(a, b) == IF a <= b THEN a ELSE b

Take(s, n) == SubSeq(s, 1, Min(n, Len(s)))

RECURSIVE SumSeq(_)
SumSeq(s) == IF s = << >> THEN 0 ELSE Head(s) + SumSeq(Tail(s))

RECURSIVE SumOver(_, _)
\* Object.values(f).reduce((sum, v) => sum + v, 0) over the keys in D
SumOver(f, D) ==
  IF D = {} THEN 0
  ELSE LET k == CHOOSE x \in D : TRUE IN f[k] + SumOver(f, D \ {k})

SelectNonFork(repos) == SelectSeq(repos, LAMBDA repo : ~repo.fork)

RECURSIVE InsertByStars_Unstable(_, _)
\* mutant: an unstable sort, equal keys end up in reverse input order
InsertByStars_Unstable(sorted, x) ==
  IF sorted = << >> THEN << x >>
  ELSE IF Head(sorted).stargazers_count > x.stargazers_count
       THEN << Head(sorted) >> \o InsertByStars_Unstable(Tail(sorted), x)
       ELSE << x >> \o sorted

RECURSIVE InsertByStars(_, _)
\* place x behind every element that does not compare greater than it under
\* (a, b) => b.stargazers_count - a.stargazers_count
InsertByStars(sorted, x) ==
  IF sorted = << >> THEN << x >>
  ELSE IF Head(sorted).stargazers_count >= x.stargazers_count
       THEN << Head(sorted) >> \o InsertByStars(Tail(sorted), x)
       ELSE << x >> \o sorted

RECURSIVE SortByStarsDesc(_)
\* Array.prototype.sort is stable: equal keys keep their input order
SortByStarsDesc(s) ==
  IF s = << >> THEN << >>
  ELSE InsertByStars(SortByStarsDesc(SubSeq(s, 1, Len(s) - 1)), s[Len(s)])

MapRepo(repo) ==
  [name |-> repo.name, stars |-> repo.stargazers_count,
   forks |-> repo.forks_count, language |-> repo.language]

TopRepos(reposData) ==
  LET top == Take(SortByStarsDesc(SelectNonFork(reposData)), TopN)
  IN  [i \in 1..Len(top) |-> MapRepo(top[i])]

\* languageResults.forEach(... stats.languages[lang] = (.. || 0) + bytes)
AggregateLanguages(languageResults) ==
  LET keys == UNION {DOMAIN languageResults[i] : i \in 1..Len(languageResults)}
  IN  [lang \in keys |->
         SumSeq([i \in 1..Len(languageResults) |->
                   IF lang \in DOMAIN languageResults[i]
                   THEN languageResults[i][lang] ELSE 0])]

\* mutant: Math.floor in place of Math.round
RoundPercent_Floor(bytes, totalBytes) == (100 * bytes) \div totalBytes

\* Math.round((bytes / totalBytes) * 100): round half up.  The quotient is a
\* double in the code; for totals below 40 every half-way case is a multiple
\* of 1/8, which a double holds exactly, so the integer form agrees with it.
RoundPercent(bytes, totalBytes) == (200 * bytes + totalBytes) \div (2 * totalBytes)

ConvertToPercentages(languages) ==
  LET totalBytes == SumOver(languages, DOMAIN languages)
  IN  IF totalBytes > 0
      THEN [lang \in DOMAIN languages |-> RoundPercent(languages[lang], totalBytes)]
      ELSE languages

\* ---- the slug of a blog post
\* characters a title is made of: an upper-case and a lower-case letter, a
\* digit, a space, punctuation, a hyphen and an accented upper-case letter
TitleChars == {"A", "b", "7", " ", "!", "-", "É"}

\* String.prototype.toLowerCase, one character
ToLowerChar(c) == IF c = "A" THEN "a" ELSE IF c = "É" THEN "é" ELSE c

ToLowerCase(s) == [i \in DOMAIN s |-> ToLowerChar(s[i])]

\* the class [a-z0-9] over the characters above, lower-cased
IsAlnum(c) == c \in {"a", "b", "7"}

\* every character outside [a-z0-9] becomes a hyphen of its own
RECURSIVE HyphenateRuns_PerChar(_)
HyphenateRuns_PerChar(s) ==
  IF s = << >> THEN << >>
  ELSE << IF IsAlnum(Head(s)) THEN Head(s) ELSE "-" >> \o HyphenateRuns_PerChar(Tail(s))

\* .replace(/[^a-z0-9]+/g, '-')
RECURSIVE HyphenateRuns(_)
HyphenateRuns(s) ==
  IF s = << >> THEN << >>
  ELSE IF IsAlnum(Head(s)) THEN << Head(s) >> \o HyphenateRuns(Tail(s))
  ELSE IF Tail(s) # << >> /\ ~IsAlnum(Head(Tail(s))) THEN HyphenateRuns(Tail(s))
  ELSE << "-" >> \o HyphenateRuns(Tail(s))

\* .replace(/(^-|-$)/g, ''): one hyphen at the start and one at the end
StripEnds(s) ==
  LET a == IF s # << >> /\ Head(s) = "-" THEN Tail(s) ELSE s
  IN  IF a # << >> /\ a[Len(a)] = "-" THEN SubSeq(a, 1, Len(a) - 1) ELSE a

Slug(title) == StripEnds(HyphenateRuns(ToLowerCase(title)))

\* ------------------------------------------------------------------ state
VARIABLES
  now,              \* wall clock and database clock, minutes
  gh,               \* version of the data GitHub currently serves
  tokenConfigured,  \* process.env.GITHUB_TOKEN is set
  usernameUnique,   \* github_stats.username carries the UNIQUE constraint
  github_stats,     \* the table: a set of rows
  storedFetchedAt,  \* history: when the data held by the table was fetched
  pc,               \* per request: the await it is suspended at
  apiError,         \* per request: apiError caught from Promise.all
  reposData,        \* per request: reposResponse.data
  stats,            \* per request: the stats object being built
  fetchedAt,        \* history, per request: time of its mandatory fetch
  calls,            \* history, per request: upstream calls issued
  wrote,            \* history, per request: its upsert changed the table
  resp,             \* per request: the response sent
  applied,          \* which derivation has run on the inputs below
  inLanguageResults, \* input: the responses of the languages calls
  outLanguages,     \* output: stats.languages
  inReposData,      \* input: reposResponse.data
  outTopRepos,      \* output: stats.topRepos
  projects,         \* the projects table: rows [id, imageurl, cloudinary_public_id]
  skills,           \* the skills table: rows [id, iconurl]
  cloudinary,       \* public ids of the assets Cloudinary holds
  projectTmp,       \* files in Uploads/projects (multer's local copies)
  skillFiles,       \* files in Uploads/skills
  names,            \* file names multer has generated so far
  serial,           \* last value of the id sequence of each table
  mreq              \* the admin request in flight, with its locals

statsVars == << now, gh, tokenConfigured, usernameUnique, github_stats,
                storedFetchedAt, pc, apiError, reposData, stats, fetchedAt,
                calls, wrote, resp >>

deriveVars == << applied, inLanguageResults, outLanguages, inReposData, outTopRepos >>

mediaVars == << projects, skills, cloudinary, projectTmp, skillFiles, names,
               serial, mreq >>

\* the blog and login routes
VARIABLES
  inTitle,          \* input: req.body.title of a blog create
  outSlug           \* output: the slug computed from it

slugVars == << inTitle, outSlug >>

VARIABLES
  blogTriggerRaises, \* the BEFORE UPDATE trigger of blog_posts raises an error
  blog_posts,       \* the table: a set of rows
  blog_comments,    \* the table: rows [id, post_id]
  blogSerial,       \* last value of the id sequence of each of the two tables
  blogCalls,        \* requests to the blog routes received so far
  likeCalls,        \* history, per post id: like calls that reached an existing post
  breq              \* per request slot: the request in flight, with its locals

blogVars == << blogTriggerRaises, blog_posts, blog_comments, blogSerial, blogCalls,
               likeCalls, breq >>

VARIABLES
  users,            \* the table: rows [id, email, password, role]
  login             \* per request slot: the login request in flight

authVars == << users, login >>

\* the journey and password routes behind the admin guard, the contact
\* route, the chatbot route and the blog list
VARIABLES
  journey_items,    \* the table: rows [id, title, type]
  journeySerial,    \* last value of the id sequence of journey_items
  areq,             \* the guarded request in flight, with its locals
  lastWrite,        \* history: what wrote a password last, "start" or "change"
  contact_messages, \* the table: rows [id, body]
  contactSerial,    \* last value of the id sequence of contact_messages
  creq,             \* per request slot: the contact request, with its two mails
  chat_conversations, \* the table: rows [id, session_id]
  chat_stats,       \* the table: rows [total_messages, unique_sessions] of today
  chatSerial,       \* last value of the id sequence of chat_conversations
  chatreq,          \* per request slot: the chat request in flight
  lreq              \* the blog list request in flight, with its locals

adminVars == << journey_items, journeySerial, areq, lastWrite >>

contactVars == << contact_messages, contactSerial, creq >>

chatVars == << chat_conversations, chat_stats, chatSerial, chatreq >>

routeVars == << adminVars, contactVars, chatVars, lreq >>

otherVars == << slugVars, blogVars, authVars, routeVars >>

vars == << statsVars, deriveVars, mediaVars, otherVars >>

\* ------------------------------------------------ the upstream (GitHub API)
UpstreamRepos(w) ==
  [i \in 1..RepoCount |->
     [name |-> i,
      stargazers_count |-> (i + w) % 3,
      forks_count |-> i % 2,
      fork |-> (i = 2 /\ w = 1),
      language |-> IF i % 2 = 1 THEN "JavaScript" ELSE "Python"]]

UpstreamUser(w) == [public_repos |-> RepoCount, followers |-> w + 1, following |-> 1]

UpstreamLanguages(w, name) ==
  IF name % 2 = 1 THEN [JavaScript |-> 2, HTML |-> 1] ELSE [Python |-> 3]

UpstreamEvents(w) ==
  [k \in 1..(EventLimit + 1) |->
     [type |-> "PushEvent", repo |-> 1 + (k % RepoCount), created_at |-> k,
      payload |-> [commits |-> k % 2]]]

\* what a failed axios call carries: response.status (0: no response at all,
\* a timeout or network error) and response.data.message ("": none)
ApiErrors ==
  { [status |-> 0,   message |-> ""],
    [status |-> 401, message |-> "Bad credentials"],
    [status |-> 403, message |-> "API rate limit exceeded"],
    [status |-> 500, message |-> ""] }

NoError == [status |-> -1, message |-> ""]
Never == -1000          \* "no time yet" of the history variables
NoStats == << >>
NoResp == [status |-> 0, body |-> << >>]

\* ----------------------------------------------------------- the database
\* the same lookup without its WHERE clause
FreshRows_AnyAge(table, t) == table

\* WHERE last_updated > NOW() - INTERVAL '15 minutes'
FreshRows(table, t) == {row \in table : row.last_updated > t - CACHE_MINUTES}

\* ORDER BY last_updated DESC LIMIT 1
LatestRows(rows) ==
  {row \in rows : \A other \in rows : other.last_updated <= row.last_updated}

NewRow(st, t) ==
  [username |-> GITHUB_USERNAME, public_repos |-> st.totalRepos,
   followers |-> st.followers, following |-> st.following,
   total_commits |-> st.totalCommits, total_stars |-> st.totalStars,
   total_forks |-> st.totalForks, languages |-> st.languages,
   repositories |-> st.topRepos, last_updated |-> t, created_at |-> t]

\* mutant: a plain INSERT, no ON CONFLICT clause and no constraint to stop it
UpsertRow_PlainInsert(table, st, t) == table \cup {NewRow(st, t)}

\* mutant: ON CONFLICT (username) DO NOTHING, the first writer wins
UpsertRow_DoNothing(table, st, t) ==
  IF \E row \in table : row.username = GITHUB_USERNAME
  THEN table ELSE table \cup {NewRow(st, t)}

\* mutant: the DO UPDATE list misses the languages column
UpsertRow_MissingColumn(table, st, t) ==
  LET hit == {row \in table : row.username = GITHUB_USERNAME}
  IN  IF hit = {} THEN table \cup {NewRow(st, t)}
      ELSE (table \ hit) \cup
             {[NewRow(st, t) EXCEPT !.languages = row.languages,
                                   !.created_at = row.created_at] : row \in hit}

\* INSERT ... VALUES (...) ON CONFLICT (username) DO UPDATE SET ...
\* created_at is set by its column default and never assigned again.
UpsertRow(table, st, t) ==
  LET hit == {row \in table : row.username = GITHUB_USERNAME}
  IN  IF hit = {}
      THEN table \cup {NewRow(st, t)}
      ELSE (table \ hit) \cup
             {[row EXCEPT !.public_repos = st.totalRepos,
                          !.followers = st.followers,
                          !.following = st.following,
                          !.total_commits = st.totalCommits,
                          !.total_stars = st.totalStars,
                          !.total_forks = st.totalForks,
                          !.languages = st.languages,
                          !.repositories = st.topRepos,
                          !.last_updated = t] : row \in hit}

\* ------------------------------------------------------------- responses
CachedBody(row, t) ==
  [cached |-> TRUE, cacheAge |-> (t - row.last_updated) * MsPerMinute] @@ row

StaleNoTokenBody(row) ==
  [cached |-> TRUE, stale |-> TRUE,
   warning |-> "Using stale cache - GitHub token not configured"] @@ row

NoTokenBody ==
  [message |-> "GitHub API unavailable", error |-> "GITHUB_TOKEN not configured",
   suggestion |-> "Please configure GITHUB_TOKEN environment variable"]

\* mutant: the fallback forgets the stale tag
StaleApiErrorBody_Untagged(row, t) ==
  [cached |-> TRUE, cacheAge |-> (t - row.last_updated) * MsPerMinute] @@ row

StaleApiErrorBody(row, t) ==
  [cached |-> TRUE, stale |-> TRUE,
   cacheAge |-> (t - row.last_updated) * MsPerMinute] @@ row

UnavailableBody(e) ==
  [message |-> "GitHub API temporarily unavailable",
   error |-> IF e.message # "" THEN e.message ELSE "Service unavailable",
   suggestion |-> IF e.status = 401 \/ e.status = 403
                  THEN "GitHub token is invalid or expired. Please update GITHUB_TOKEN."
                  ELSE "Please try again later"]
  @@ (IF e.status # 0 THEN [status |-> e.status] ELSE << >>)

FreshBody(st, t) == [cached |-> FALSE, fetched |-> t] @@ st

ServerErrorBody ==
  [message |-> "Failed to fetch GitHub statistics", error |-> "query failed"]

Respond(r, status, body) ==
  /\ resp' = [resp EXCEPT ![r] = [status |-> status, body |-> body]]
  /\ pc' = [pc EXCEPT ![r] = "done"]

\* the outer catch: any query that throws ends the request with a 500
QueryFails(r) ==
  /\ Respond(r, 500, ServerErrorBody)
  /\ UNCHANGED << now, gh, tokenConfigured, usernameUnique, github_stats,
                  storedFetchedAt, apiError, reposData, stats, fetchedAt,
                  calls, wrote >>

\* ------------------------------------------------------- GET /github steps
\* mutant: the handler skips the cache and always refreshes
CacheCheck_AlwaysRefresh(r) ==
  /\ UNCHANGED << deriveVars, mediaVars, otherVars >>
  /\ pc[r] = "start"
  /\ pc' = [pc EXCEPT ![r] = IF tokenConfigured THEN "fetch" ELSE "noToken"]
  /\ UNCHANGED << now, gh, tokenConfigured, usernameUnique, github_stats,
                  storedFetchedAt, apiError, reposData, stats, fetchedAt,
                  calls, wrote, resp >>

\* the cache lookup, then the token check that follows it without an await
CacheCheck(r) ==
  /\ UNCHANGED << deriveVars, mediaVars, otherVars >>
  /\ pc[r] = "start"
  /\ \/ QueryFails(r)
     \/ /\ FreshRows(github_stats, now) # {}
        /\ \E row \in LatestRows(FreshRows(github_stats, now)) :
             Respond(r, 200, CachedBody(row, now))
        /\ UNCHANGED << now, gh, tokenConfigured, usernameUnique, github_stats,
                        storedFetchedAt, apiError, reposData, stats, fetchedAt,
                        calls, wrote >>
     \/ /\ FreshRows(github_stats, now) = {}
        /\ pc' = [pc EXCEPT ![r] = IF tokenConfigured THEN "fetch" ELSE "noToken"]
        /\ UNCHANGED << now, gh, tokenConfigured, usernameUnique, github_stats,
                        storedFetchedAt, apiError, reposData, stats, fetchedAt,
                        calls, wrote, resp >>

\* no token: the stale lookup and its response
StaleNoToken(r) ==
  /\ UNCHANGED << deriveVars, mediaVars, otherVars >>
  /\ pc[r] = "noToken"
  /\ \/ QueryFails(r)
     \/ /\ IF github_stats # {}
           THEN \E row \in LatestRows(github_stats) :
                  Respond(r, 200, StaleNoTokenBody(row))
           ELSE Respond(r, 503, NoTokenBody)
        /\ UNCHANGED << now, gh, tokenConfigured, usernameUnique, github_stats,
                        storedFetchedAt, apiError, reposData, stats, fetchedAt,
                        calls, wrote >>

\* the stats object as built right after the two mandatory calls
InitialStats(userData, repos) ==
  [totalRepos |-> userData.public_repos,
   totalStars |-> SumSeq([i \in 1..Len(repos) |-> repos[i].stargazers_count]),
   totalForks |-> SumSeq([i \in 1..Len(repos) |-> repos[i].forks_count]),
   totalCommits |-> 0,
   followers |-> userData.followers,
   following |-> userData.following,
   languages |-> << >>,
   topRepos |-> TopRepos(repos),
   recentActivity |-> << >>]

\* Promise.all of the user call and the repository-list call
MandatoryFetch(r) ==
  /\ UNCHANGED << deriveVars, mediaVars, otherVars >>
  /\ pc[r] = "fetch"
  /\ calls' = [calls EXCEPT ![r] = @ + 2]
  /\ \/ /\ reposData' = [reposData EXCEPT ![r] = UpstreamRepos(gh)]
        /\ stats' = [stats EXCEPT ![r] = InitialStats(UpstreamUser(gh), UpstreamRepos(gh))]
        /\ fetchedAt' = [fetchedAt EXCEPT ![r] = now]
        /\ pc' = [pc EXCEPT ![r] = "languages"]
        /\ UNCHANGED apiError
     \/ /\ \E e \in ApiErrors : apiError' = [apiError EXCEPT ![r] = e]
        /\ pc' = [pc EXCEPT ![r] = "apiError"]
        /\ UNCHANGED << reposData, stats, fetchedAt >>
  /\ UNCHANGED << now, gh, tokenConfigured, usernameUnique, github_stats,
                  storedFetchedAt, wrote, resp >>

EmptySnapshot ==
  [username |-> GITHUB_USERNAME, public_repos |-> 0, followers |-> 0,
   following |-> 0, total_commits |-> 0, total_stars |-> 0, total_forks |-> 0,
   languages |-> << >>, repositories |-> << >>]

\* mutant: with nothing stored the fallback answers 200 with an empty snapshot
StaleOnApiError_EmptySnapshot(r) ==
  /\ UNCHANGED << deriveVars, mediaVars, otherVars >>
  /\ pc[r] = "apiError"
  /\ IF github_stats # {}
     THEN \E row \in LatestRows(github_stats) :
            Respond(r, 200, StaleApiErrorBody(row, now))
     ELSE Respond(r, 200, [cached |-> TRUE, stale |-> TRUE] @@ EmptySnapshot)
  /\ UNCHANGED << now, gh, tokenConfigured, usernameUnique, github_stats,
                  storedFetchedAt, apiError, reposData, stats, fetchedAt,
                  calls, wrote >>

\* mutant: the fallback refreshes last_updated of the row it serves
StaleOnApiError_TouchesRow(r) ==
  /\ UNCHANGED << deriveVars, mediaVars, otherVars >>
  /\ pc[r] = "apiError"
  /\ IF github_stats # {}
     THEN \E row \in LatestRows(github_stats) :
            /\ Respond(r, 200, StaleApiErrorBody(row, now))
            /\ github_stats' = (github_stats \ {row})
                                 \cup {[row EXCEPT !.last_updated = now]}
     ELSE Respond(r, 503, UnavailableBody(apiError[r])) /\ UNCHANGED github_stats
  /\ UNCHANGED << now, gh, tokenConfigured, usernameUnique,
                  storedFetchedAt, apiError, reposData, stats, fetchedAt,
                  calls, wrote >>

\* a mandatory call failed: the unconditional lookup and its response
StaleOnApiError(r) ==
  /\ UNCHANGED << deriveVars, mediaVars, otherVars >>
  /\ pc[r] = "apiError"
  /\ \/ QueryFails(r)
     \/ /\ IF github_stats # {}
           THEN \E row \in LatestRows(github_stats) :
                  Respond(r, 200, StaleApiErrorBody(row, now))
           ELSE Respond(r, 503, UnavailableBody(apiError[r]))
        /\ UNCHANGED << now, gh, tokenConfigured, usernameUnique, github_stats,
                        storedFetchedAt, apiError, reposData, stats, fetchedAt,
                        calls, wrote >>

\* one languages call per repository of the first LangRepoLimit; a call that
\* fails contributes {}
FetchLanguages(r) ==
  /\ UNCHANGED << deriveVars, mediaVars, otherVars >>
  /\ pc[r] = "languages"
  /\ LET repos == Take(reposData[r], LangRepoLimit)
     IN  /\ calls' = [calls EXCEPT ![r] = @ + Len(repos)]
         /\ \E ok \in SUBSET (1..Len(repos)) :
              LET languageResults ==
                    [i \in 1..Len(repos) |->
                       IF i \in ok THEN UpstreamLanguages(gh, repos[i].name)
                       ELSE << >>]
              IN  stats' = [stats EXCEPT ![r].languages =
                              ConvertToPercentages(AggregateLanguages(languageResults))]
  /\ pc' = [pc EXCEPT ![r] = "events"]
  /\ UNCHANGED << now, gh, tokenConfigured, usernameUnique, github_stats,
                  storedFetchedAt, apiError, reposData, fetchedAt, wrote, resp >>

MapEvent(event) ==
  [type |-> event.type, repo |-> event.repo, created_at |-> event.created_at,
   payload |-> [commits |-> event.payload.commits]]

\* the events call; when it fails recentActivity stays []
FetchEvents(r) ==
  /\ UNCHANGED << deriveVars, mediaVars, otherVars >>
  /\ pc[r] = "events"
  /\ calls' = [calls EXCEPT ![r] = @ + 1]
  /\ \/ LET events == Take(UpstreamEvents(gh), EventLimit)
        IN  stats' = [stats EXCEPT ![r].recentActivity =
                        [k \in 1..Len(events) |-> MapEvent(events[k])]]
     \/ UNCHANGED stats
  /\ pc' = [pc EXCEPT ![r] = "upsert"]
  /\ UNCHANGED << now, gh, tokenConfigured, usernameUnique, github_stats,
                  storedFetchedAt, apiError, reposData, fetchedAt, wrote, resp >>

\* the upsert inside its own try/catch, then the response
Upsert(r) ==
  /\ UNCHANGED << deriveVars, mediaVars, otherVars >>
  /\ pc[r] = "upsert"
  /\ \/ /\ usernameUnique
        /\ github_stats' = UpsertRow(github_stats, stats[r], now)
        /\ storedFetchedAt' = fetchedAt[r]
        /\ wrote' = [wrote EXCEPT ![r] = TRUE]
     \/ \* cacheError: the statement is rejected (no constraint matches
        \* ON CONFLICT) or the connection fails
        UNCHANGED << github_stats, storedFetchedAt, wrote >>
  /\ Respond(r, 200, FreshBody(stats[r], now))
  /\ UNCHANGED << now, gh, tokenConfigured, usernameUnique, apiError,
                  reposData, stats, fetchedAt, calls >>

\* ------------------------------------------------------------ environment
Tick ==
  /\ UNCHANGED << deriveVars, mediaVars, otherVars >>
  /\ \E d \in ClockSteps : now + d <= MaxTime /\ now' = now + d
  /\ UNCHANGED << gh, tokenConfigured, usernameUnique, github_stats,
                  storedFetchedAt, pc, apiError, reposData, stats, fetchedAt,
                  calls, wrote, resp >>

UpstreamChange ==
  /\ UNCHANGED << deriveVars, mediaVars, otherVars >>
  /\ gh < MaxWorld
  /\ gh' = gh + 1
  /\ UNCHANGED << now, tokenConfigured, usernameUnique, github_stats,
                  storedFetchedAt, pc, apiError, reposData, stats, fetchedAt,
                  calls, wrote, resp >>

\* ------------------------------------------------------------ specification
\* the row a refresh of an earlier run of the server left behind, by now stale
EarlierRow ==
  CHOOSE row \in UpsertRow({}, [InitialStats(UpstreamUser(0), UpstreamRepos(0))
                                  EXCEPT !.languages = [JavaScript |-> 100]],
                            0 - CACHE_MINUTES) : TRUE

StatsInit ==
  /\ now = 0
  /\ gh = 0
  /\ tokenConfigured \in BOOLEAN
  /\ usernameUnique \in BOOLEAN
  /\ github_stats \in {{}} \cup (IF usernameUnique THEN {{EarlierRow}} ELSE {})
  /\ storedFetchedAt = IF github_stats = {} THEN Never ELSE EarlierRow.last_updated
  /\ pc = [r \in Reqs |-> "start"]
  /\ apiError = [r \in Reqs |-> NoError]
  /\ reposData = [r \in Reqs |-> << >>]
  /\ stats = [r \in Reqs |-> NoStats]
  /\ fetchedAt = [r \in Reqs |-> Never]
  /\ calls = [r \in Reqs |-> 0]
  /\ wrote = [r \in Reqs |-> FALSE]
  /\ resp = [r \in Reqs |-> NoResp]

\* null of a reference column, and "no file" of a request
Null == 0

NoRequest ==
  [op |-> "none", pc |-> "done", id |-> Null, file |-> Null, valid |-> TRUE,
   iconUrl |-> Null, existing |-> Null, imageUrl |-> Null, publicId |-> Null,
   deleteFailed |-> FALSE, status |-> 0]

\* ---- the blog tables as a run of the server finds them
BlogReqs == {1, 2}      \* two requests to the blog routes, running concurrently
BlogTitles == {<< "A" >>, << "b" >>}
BlogIds == 1..MaxPosts

NoBlogRequest ==
  [op |-> "none", pc |-> "done", id |-> Null, slug |-> << >>, title |-> << >>,
   poststatus |-> "draft", body |-> << >>, updateData |-> << >>, read |-> 0,
   after |-> 0, returned |-> 0, status |-> 0]

\* a post published by an earlier request, and a comment on it
EarlierPost ==
  [id |-> 1, title |-> << "A" >>, slug |-> Slug(<< "A" >>), status |-> "published",
   views |-> 0, likes |-> 0, published_at |-> 0 - CACHE_MINUTES,
   updated_at |-> 0 - CACHE_MINUTES]

\* update_updated_at_column assigns NEW.updatedAt, which is the column
\* updatedat; blog_posts has updated_at instead, and PostgreSQL raises
\* 'record "new" has no field "updatedat"' when the trigger runs. A
\* blog_posts table created before this server (CREATE TABLE IF NOT EXISTS
\* keeps it) may have the column, and then the trigger does not raise: the
\* blog routes are studied on both, the other routes with the trigger as the
\* server creates it.
BlogInit(postTables) ==
  /\ blog_posts \in postTables
  /\ blog_comments = {[id |-> 1, post_id |-> 1]}
  /\ blogSerial =
       [posts |-> CHOOSE i \in {row.id : row \in blog_posts} :
                    \A row \in blog_posts : row.id <= i,
        comments |-> 1]
  /\ blogCalls = 0
  /\ likeCalls = [i \in BlogIds |-> 0]
  /\ breq = [r \in BlogReqs |-> NoBlogRequest]

\* ---- the users table as a run of the server finds it
LoginReqs == {1, 2}     \* two POST /login requests, running concurrently
ADMIN_EMAIL == "syedazadarhussayn@gmail.com"
Emails == {ADMIN_EMAIL, "nobody@example.com"}
Passwords == {"admin123", "guess"}

\* bcrypt.hash, and bcrypt.compare of a password with a stored hash
BcryptHash(password) == << "$2a$10$", password >>

BcryptCompare(password, hash) == hash = BcryptHash(password)

NoLogin ==
  [pc |-> "done", email |-> "", password |-> "", user |-> << >>,
   resp |-> [status |-> 0, body |-> << >>]]

\* the row createInitialAdmin stores
BuiltInAdmin ==
  [id |-> 1, email |-> ADMIN_EMAIL, password |-> BcryptHash("admin123"),
   role |-> "admin"]

AuthInit(userTables) ==
  /\ users \in userTables
  /\ login = [r \in LoginReqs |-> NoLogin]

\* ---- the guarded, contact, chat and list requests before any has arrived
ContactReqs == {1, 2}   \* two POST /contact requests, running concurrently
ChatReqs == {1, 2}      \* two POST /chat requests, running concurrently

\* no Authorization header
NoBearer == [kind |-> "none", jwt |-> << >>]

NoAdminRequest ==
  [op |-> "none", pc |-> "done", stage |-> 0, token |-> NoBearer, user |-> << >>,
   body |-> << >>, id |-> 0, reached |-> FALSE,
   resp |-> [status |-> 0, body |-> << >>]]

NoMails == [admin |-> "none", user |-> "none"]

NoContact ==
  [pc |-> "done", body |-> << >>, id |-> 0, mail |-> NoMails,
   resp |-> [status |-> 0, body |-> << >>]]

NoChat ==
  [pc |-> "done", session |-> << >>, resp |-> [status |-> 0, body |-> << >>]]

NoList ==
  [pc |-> "done", query |-> << >>, posts |-> << >>,
   resp |-> [status |-> 0, body |-> << >>]]

RouteInit ==
  /\ journey_items = {} /\ journeySerial = 0 /\ areq = NoAdminRequest
  /\ lastWrite = "start"
  /\ contact_messages = {} /\ contactSerial = 0
  /\ creq = [r \in ContactReqs |-> NoContact]
  /\ chat_conversations = {} /\ chat_stats = {} /\ chatSerial = 0
  /\ chatreq = [r \in ChatReqs |-> NoChat]
  /\ lreq = NoList

\* no derivation has run, the tables and stores of the media routes are
\* empty and no admin request is in flight
RestInitOn(langInputs, repoInputs, userTables, postTables) ==
  /\ applied = "none" /\ inLanguageResults \in langInputs /\ outLanguages = << >>
  /\ inReposData \in repoInputs /\ outTopRepos = << >>
  /\ projects = {} /\ skills = {} /\ cloudinary = {} /\ projectTmp = {}
  /\ skillFiles = {} /\ names = 0 /\ serial = [projects |-> 0, skills |-> 0]
  /\ mreq = NoRequest
  /\ inTitle = << >> /\ outSlug = << >>
  /\ BlogInit(postTables)
  /\ AuthInit(userTables)
  /\ RouteInit

\* createInitialAdmin has stored the admin, and one post is published
RestInit(langInputs, repoInputs) ==
  RestInitOn(langInputs, repoInputs, {{BuiltInAdmin}}, {{EarlierPost}})

Init == StatsInit /\ RestInit({<< >>}, {<< >>}) /\ blogTriggerRaises = TRUE

Next ==
  \/ \E r \in Reqs : CacheCheck(r)
  \/ \E r \in Reqs : StaleNoToken(r)
  \/ \E r \in Reqs : MandatoryFetch(r)
  \/ \E r \in Reqs : StaleOnApiError(r)
  \/ \E r \in Reqs : FetchLanguages(r)
  \/ \E r \in Reqs : FetchEvents(r)
  \/ \E r \in Reqs : Upsert(r)
  \/ Tick
  \/ UpstreamChange

Spec == Init /\ [][Next]_vars

\* ------------------------------------------------- the derivations alone
\* what one languages call can answer: some languages, each with its bytes
LanguageMaps == UNION {[D -> 1..MaxBytes] : D \in SUBSET LangNames}

SeqsUpTo(S, n) == UNION {[1..k -> S] : k \in 0..n}

\* what the repository-list call can answer, as far as the ranking reads it;
\* a repository is named by its place in the response
RepoLists ==
  {[i \in 1..Len(l) |->
      [name |-> i, stargazers_count |-> l[i].stargazers_count,
       forks_count |-> 0, fork |-> l[i].fork, language |-> "JavaScript"]] :
   l \in SeqsUpTo([stargazers_count : 0..MaxStars, fork : BOOLEAN], MaxRepos)}

LangInputs == SeqsUpTo(LanguageMaps, MaxLangResults)

\* no stats request matters while another part is studied alone
StatsIdle == StatsInit /\ tokenConfigured /\ usernameUnique /\ github_stats = {}

\* lines 185-197 of the handler on the responses collected
ApplyLanguages ==
  /\ applied = "none"
  /\ applied' = "languages"
  /\ outLanguages' = ConvertToPercentages(AggregateLanguages(inLanguageResults))
  /\ UNCHANGED << statsVars, mediaVars, otherVars, inLanguageResults, inReposData,
                  outTopRepos >>

\* lines 153-165 of the handler on the repository list
ApplyTopRepos ==
  /\ applied = "none"
  /\ applied' = "top"
  /\ outTopRepos' = TopRepos(inReposData)
  /\ UNCHANGED << statsVars, mediaVars, otherVars, inLanguageResults, outLanguages,
                  inReposData >>

\* the derivation of the language shares alone, on every input in the bounds
InitLang == StatsIdle /\ RestInit(LangInputs, {<< >>}) /\ blogTriggerRaises = TRUE

\* the ranking of the repositories alone, on every input in the bounds
InitTop == StatsIdle /\ RestInit({<< >>}, RepoLists) /\ blogTriggerRaises = TRUE

SpecLang == InitLang /\ [][ApplyLanguages]_vars

SpecTop == InitTop /\ [][ApplyTopRepos]_vars

\* lines 334-336 of the blog create handler on a title
Titles == SeqsUpTo(TitleChars, MaxTitleLen)

ApplySlug ==
  /\ applied = "none"
  /\ applied' = "slug"
  /\ \E title \in Titles :
       /\ inTitle' = title
       /\ outSlug' = Slug(title)
  /\ UNCHANGED << statsVars, mediaVars, blogVars, authVars, routeVars,
                  inLanguageResults, outLanguages, inReposData, outTopRepos >>

\* the slug computation alone, on every title in the bounds
InitSlug == StatsIdle /\ RestInit({<< >>}, {<< >>}) /\ blogTriggerRaises = TRUE

SpecSlug == InitSlug /\ [][ApplySlug]_vars

\* ------------------------------------------- projects and skills (media)
\* Admin requests are taken one at a time; each await of a handler is a step.
Idle == mreq.pc = "done"

MediaFrame == UNCHANGED << statsVars, deriveVars, otherVars >>

Finish(status) == mreq' = [mreq EXCEPT !.pc = "done", !.status = status]

\* multer: the uploaded file is on disk before the handler runs
\* (file = Null: the request carries no file)
Arrive(op, id, file, valid, iconUrl) ==
  mreq' = [op |-> op, pc |-> "begin", id |-> id, file |-> file, valid |-> valid,
           iconUrl |-> iconUrl, existing |-> Null, imageUrl |-> Null,
           publicId |-> Null, deleteFailed |-> FALSE, status |-> 0]

\* the catch block of the project handlers: remove the local copy, answer 500
ProjectCatch ==
  /\ projectTmp' = projectTmp \ {mreq.file}
  /\ Finish(500)

\* ---- POST /projects
ProjectPostArrive ==
  /\ Idle
  /\ serial.projects < MaxEntities
  /\ \E withFile \in BOOLEAN, valid \in BOOLEAN :
       IF withFile
       THEN /\ names < MaxUploads
            /\ names' = names + 1
            /\ projectTmp' = projectTmp \cup {names + 1}
            /\ Arrive("projectPost", Null, names + 1, valid, Null)
       ELSE /\ Arrive("projectPost", Null, Null, valid, Null)
            /\ UNCHANGED << names, projectTmp >>
  /\ UNCHANGED << projects, skills, cloudinary, skillFiles >>
  /\ UNCHANGED serial
  /\ MediaFrame

\* validation, then either the upload or the INSERT is awaited
ProjectPostBegin ==
  /\ mreq.op = "projectPost" /\ mreq.pc = "begin"
  /\ IF ~mreq.valid THEN Finish(400)
     ELSE mreq' = [mreq EXCEPT !.pc = IF mreq.file # Null THEN "upload" ELSE "insert"]
  /\ UNCHANGED << projects, skills, cloudinary, projectTmp, skillFiles, names >>
  /\ UNCHANGED serial
  /\ MediaFrame

\* uploadToCloudinary, then the local copy is unlinked; the asset stored for
\* the file named n gets n as its url and its public id
ProjectUpload ==
  /\ mreq.op \in {"projectPost", "projectPut"} /\ mreq.pc = "upload"
  /\ \/ /\ cloudinary' = cloudinary \cup {mreq.file}
        /\ projectTmp' = projectTmp \ {mreq.file}
        /\ mreq' = [mreq EXCEPT !.imageUrl = mreq.file, !.publicId = mreq.file,
                                !.pc = IF mreq.op = "projectPost" THEN "insert"
                                       ELSE "update"]
     \/ /\ ProjectCatch
        /\ UNCHANGED cloudinary
  /\ UNCHANGED << projects, skills, skillFiles, names >>
  /\ UNCHANGED serial
  /\ MediaFrame

ProjectInsert ==
  /\ mreq.op = "projectPost" /\ mreq.pc = "insert"
  /\ \/ /\ projects' = projects \cup
                         {[id |-> serial.projects + 1, imageurl |-> mreq.imageUrl,
                           cloudinary_public_id |-> mreq.publicId]}
        /\ serial' = [serial EXCEPT !.projects = @ + 1]
        /\ Finish(201)
        /\ UNCHANGED projectTmp
     \/ /\ ProjectCatch
        /\ UNCHANGED << projects, serial >>
  /\ UNCHANGED << skills, cloudinary, skillFiles, names >>
  /\ MediaFrame

\* ---- PUT /projects/:id
ProjectPutArrive ==
  /\ Idle
  /\ \E id \in 1..MaxEntities, withFile \in BOOLEAN, valid \in BOOLEAN :
       IF withFile
       THEN /\ names < MaxUploads
            /\ names' = names + 1
            /\ projectTmp' = projectTmp \cup {names + 1}
            /\ Arrive("projectPut", id, names + 1, valid, Null)
       ELSE /\ Arrive("projectPut", id, Null, valid, Null)
            /\ UNCHANGED << names, projectTmp >>
  /\ UNCHANGED << projects, skills, cloudinary, skillFiles >>
  /\ UNCHANGED serial
  /\ MediaFrame

\* validation, then the SELECT is awaited
ProjectPutBegin ==
  /\ mreq.op = "projectPut" /\ mreq.pc = "begin"
  /\ IF ~mreq.valid THEN Finish(400) ELSE mreq' = [mreq EXCEPT !.pc = "select"]
  /\ UNCHANGED << projects, skills, cloudinary, projectTmp, skillFiles, names >>
  /\ UNCHANGED serial
  /\ MediaFrame

\* the SELECT returns: 404, or the row is kept and the next await is the
\* deletion of the old asset, the upload, or the UPDATE
ProjectPutSelect ==
  /\ mreq.op = "projectPut" /\ mreq.pc = "select"
  /\ \/ /\ ProjectCatch
     \/ /\ ~\E row \in projects : row.id = mreq.id
        /\ Finish(404)
        /\ UNCHANGED projectTmp
     \/ /\ \E row \in projects :
             /\ row.id = mreq.id
             /\ mreq' = [mreq EXCEPT
                           !.existing = row.cloudinary_public_id,
                           !.imageUrl = row.imageurl,
                           !.publicId = row.cloudinary_public_id,
                           !.pc = IF mreq.file = Null THEN "update"
                                  ELSE IF row.cloudinary_public_id # Null THEN "destroy"
                                  ELSE "upload"]
        /\ UNCHANGED projectTmp
  /\ UNCHANGED << projects, skills, cloudinary, skillFiles, names >>
  /\ UNCHANGED serial
  /\ MediaFrame

\* deleteFromCloudinary(existingProject.cloudinary_public_id): it rethrows
\* what the destroy call throws
ProjectPutDestroy ==
  /\ mreq.op = "projectPut" /\ mreq.pc = "destroy"
  /\ \/ /\ cloudinary' = cloudinary \ {mreq.existing}
        /\ mreq' = [mreq EXCEPT !.pc = "upload"]
        /\ UNCHANGED projectTmp
     \/ /\ projectTmp' = projectTmp \ {mreq.file}
        /\ mreq' = [mreq EXCEPT !.pc = "done", !.status = 500, !.deleteFailed = TRUE]
        /\ UNCHANGED cloudinary
  /\ UNCHANGED << projects, skills, skillFiles, names >>
  /\ UNCHANGED serial
  /\ MediaFrame

ProjectPutUpdate ==
  /\ mreq.op = "projectPut" /\ mreq.pc = "update"
  /\ \/ /\ projects' = {IF row.id = mreq.id
                          THEN [row EXCEPT !.imageurl = mreq.imageUrl,
                                           !.cloudinary_public_id = mreq.publicId]
                          ELSE row : row \in projects}
        /\ Finish(200)
        /\ UNCHANGED projectTmp
     \/ /\ ProjectCatch
        /\ UNCHANGED projects
  /\ UNCHANGED << skills, cloudinary, skillFiles, names >>
  /\ UNCHANGED serial
  /\ MediaFrame

\* ---- POST /skills
SkillPostArrive ==
  /\ Idle
  /\ serial.skills < MaxEntities
  /\ \E withFile \in BOOLEAN, valid \in BOOLEAN :
       IF withFile
       THEN /\ names < MaxUploads
            /\ names' = names + 1
            /\ skillFiles' = skillFiles \cup {names + 1}
            /\ Arrive("skillPost", Null, names + 1, valid, Null)
       ELSE /\ Arrive("skillPost", Null, Null, valid, Null)
            /\ UNCHANGED << names, skillFiles >>
  /\ UNCHANGED << projects, skills, cloudinary, projectTmp >>
  /\ UNCHANGED serial
  /\ MediaFrame

\* validation, then the INSERT is awaited
SkillPostBegin ==
  /\ mreq.op = "skillPost" /\ mreq.pc = "begin"
  /\ IF ~mreq.valid THEN Finish(400)
     ELSE mreq' = [mreq EXCEPT !.pc = "insert", !.imageUrl = mreq.file]
  /\ UNCHANGED << projects, skills, cloudinary, projectTmp, skillFiles, names >>
  /\ UNCHANGED serial
  /\ MediaFrame

SkillInsert ==
  /\ mreq.op = "skillPost" /\ mreq.pc = "insert"
  /\ \/ /\ skills' = skills \cup
                       {[id |-> serial.skills + 1, iconurl |-> mreq.imageUrl]}
        /\ serial' = [serial EXCEPT !.skills = @ + 1]
        /\ Finish(201)
     \/ /\ Finish(500)
        /\ UNCHANGED << skills, serial >>
  /\ UNCHANGED << projects, cloudinary, projectTmp, skillFiles, names >>
  /\ MediaFrame

\* ---- PUT /skills/:id
\* iconUrl is the body field the form sends back: absent or empty (Null), or
\* the url of an icon
SkillPutArrive ==
  /\ Idle
  /\ \E id \in 1..MaxEntities, withFile \in BOOLEAN, valid \in BOOLEAN,
        iconUrl \in {Null} \cup {row.iconurl : row \in skills} :
       IF withFile
       THEN /\ names < MaxUploads
            /\ names' = names + 1
            /\ skillFiles' = skillFiles \cup {names + 1}
            /\ Arrive("skillPut", id, names + 1, valid, iconUrl)
       ELSE /\ Arrive("skillPut", id, Null, valid, iconUrl)
            /\ UNCHANGED << names, skillFiles >>
  /\ UNCHANGED << projects, skills, cloudinary, projectTmp >>
  /\ UNCHANGED serial
  /\ MediaFrame

\* validation, then the SELECT is awaited
SkillPutBegin ==
  /\ mreq.op = "skillPut" /\ mreq.pc = "begin"
  /\ IF ~mreq.valid THEN Finish(400) ELSE mreq' = [mreq EXCEPT !.pc = "select"]
  /\ UNCHANGED << projects, skills, cloudinary, projectTmp, skillFiles, names >>
  /\ UNCHANGED serial
  /\ MediaFrame

\* the SELECT returns: 404, or lines 123-140 run (fs.unlinkSync may throw)
\* and the UPDATE is awaited
SkillPutSelect ==
  /\ mreq.op = "skillPut" /\ mreq.pc = "select"
  /\ \/ /\ Finish(500)
        /\ UNCHANGED skillFiles
     \/ /\ ~\E row \in skills : row.id = mreq.id
        /\ Finish(404)
        /\ UNCHANGED skillFiles
     \/ \E row \in skills :
          /\ row.id = mreq.id
          /\ LET oldIconPath == row.iconurl
                 unlinks == /\ oldIconPath # Null /\ oldIconPath \in skillFiles
                            /\ (mreq.file # Null \/ mreq.iconUrl = Null)
                 finalIconUrl == IF mreq.file # Null THEN mreq.file ELSE mreq.iconUrl
             IN  \/ /\ skillFiles' = IF unlinks THEN skillFiles \ {oldIconPath}
                                      ELSE skillFiles
                    /\ mreq' = [mreq EXCEPT !.existing = row.iconurl,
                                            !.imageUrl = finalIconUrl,
                                            !.pc = "update"]
                 \/ /\ unlinks
                    /\ mreq' = [mreq EXCEPT !.existing = row.iconurl,
                                            !.deleteFailed = TRUE,
                                            !.pc = "done", !.status = 500]
                    /\ UNCHANGED skillFiles
  /\ UNCHANGED << projects, skills, cloudinary, projectTmp, names >>
  /\ UNCHANGED serial
  /\ MediaFrame

SkillPutUpdate ==
  /\ mreq.op = "skillPut" /\ mreq.pc = "update"
  /\ \/ /\ skills' = {IF row.id = mreq.id THEN [row EXCEPT !.iconurl = mreq.imageUrl]
                        ELSE row : row \in skills}
        /\ Finish(200)
     \/ /\ Finish(500)
        /\ UNCHANGED skills
  /\ UNCHANGED << projects, cloudinary, projectTmp, skillFiles, names >>
  /\ UNCHANGED serial
  /\ MediaFrame

\* ---- DELETE /projects/:id
ProjectDeleteArrive ==
  /\ Idle
  /\ \E id \in 1..MaxEntities : Arrive("projectDelete", id, Null, TRUE, Null)
  /\ UNCHANGED << projects, skills, cloudinary, projectTmp, skillFiles, names >>
  /\ UNCHANGED serial
  /\ MediaFrame

\* the SELECT returns: 404, or the row is kept and the next await is the
\* deletion of the asset or, when the row has no public id, the DELETE
ProjectDeleteSelect ==
  /\ mreq.op = "projectDelete" /\ mreq.pc = "begin"
  /\ \/ Finish(500)
     \/ /\ ~\E row \in projects : row.id = mreq.id
        /\ Finish(404)
     \/ \E row \in projects :
          /\ row.id = mreq.id
          /\ mreq' = [mreq EXCEPT
                        !.existing = row.cloudinary_public_id,
                        !.pc = IF row.cloudinary_public_id # Null THEN "destroy"
                               ELSE "delete"]
  /\ UNCHANGED << projects, skills, cloudinary, projectTmp, skillFiles, names >>
  /\ UNCHANGED serial
  /\ MediaFrame

\* deleteFromCloudinary(project.cloudinary_public_id): what it rethrows is
\* caught by the handler's catch block
ProjectDeleteDestroy ==
  /\ mreq.op = "projectDelete" /\ mreq.pc = "destroy"
  /\ \/ /\ cloudinary' = cloudinary \ {mreq.existing}
        /\ mreq' = [mreq EXCEPT !.pc = "delete"]
     \/ /\ mreq' = [mreq EXCEPT !.pc = "done", !.status = 500, !.deleteFailed = TRUE]
        /\ UNCHANGED cloudinary
  /\ UNCHANGED << projects, skills, projectTmp, skillFiles, names >>
  /\ UNCHANGED serial
  /\ MediaFrame

ProjectDeleteRow ==
  /\ mreq.op = "projectDelete" /\ mreq.pc = "delete"
  /\ \/ /\ projects' = {row \in projects : row.id # mreq.id}
        /\ Finish(200)
     \/ /\ Finish(500)
        /\ UNCHANGED projects
  /\ UNCHANGED << skills, cloudinary, projectTmp, skillFiles, names >>
  /\ UNCHANGED serial
  /\ MediaFrame

\* ---- DELETE /skills/:id
SkillDeleteArrive ==
  /\ Idle
  /\ \E id \in 1..MaxEntities : Arrive("skillDelete", id, Null, TRUE, Null)
  /\ UNCHANGED << projects, skills, cloudinary, projectTmp, skillFiles, names >>
  /\ UNCHANGED serial
  /\ MediaFrame

\* the SELECT returns: 404, or the icon file is unlinked when it exists
\* (fs.unlinkSync may throw) and the DELETE is awaited
SkillDeleteSelect ==
  /\ mreq.op = "skillDelete" /\ mreq.pc = "begin"
  /\ \/ /\ Finish(500)
        /\ UNCHANGED skillFiles
     \/ /\ ~\E row \in skills : row.id = mreq.id
        /\ Finish(404)
        /\ UNCHANGED skillFiles
     \/ \E row \in skills :
          /\ row.id = mreq.id
          /\ LET unlinks == row.iconurl # Null /\ row.iconurl \in skillFiles
             IN  \/ /\ skillFiles' = IF unlinks THEN skillFiles \ {row.iconurl}
                                      ELSE skillFiles
                    /\ mreq' = [mreq EXCEPT !.existing = row.iconurl, !.pc = "delete"]
                 \/ /\ unlinks
                    /\ mreq' = [mreq EXCEPT !.existing = row.iconurl,
                                            !.deleteFailed = TRUE,
                                            !.pc = "done", !.status = 500]
                    /\ UNCHANGED skillFiles
  /\ UNCHANGED << projects, skills, cloudinary, projectTmp, names >>
  /\ UNCHANGED serial
  /\ MediaFrame

SkillDeleteRow ==
  /\ mreq.op = "skillDelete" /\ mreq.pc = "delete"
  /\ \/ /\ skills' = {row \in skills : row.id # mreq.id}
        /\ Finish(200)
     \/ /\ Finish(500)
        /\ UNCHANGED skills
  /\ UNCHANGED << projects, cloudinary, projectTmp, skillFiles, names >>
  /\ UNCHANGED serial
  /\ MediaFrame

MediaNext ==
  \/ ProjectPostArrive
  \/ ProjectPostBegin
  \/ ProjectUpload
  \/ ProjectInsert
  \/ ProjectPutArrive
  \/ ProjectPutBegin
  \/ ProjectPutSelect
  \/ ProjectPutDestroy
  \/ ProjectPutUpdate
  \/ SkillPostArrive
  \/ SkillPostBegin
  \/ SkillInsert
  \/ SkillPutArrive
  \/ SkillPutBegin
  \/ SkillPutSelect
  \/ SkillPutUpdate
  \/ ProjectDeleteArrive
  \/ ProjectDeleteSelect
  \/ ProjectDeleteDestroy
  \/ ProjectDeleteRow
  \/ SkillDeleteArrive
  \/ SkillDeleteSelect
  \/ SkillDeleteRow

\* the admin requests alone
InitMedia == StatsIdle /\ RestInit({<< >>}, {<< >>}) /\ blogTriggerRaises = TRUE

SpecMedia == InitMedia /\ [][MediaNext]_vars

\* ------------------------------------------------------------ blog routes
\* Two requests run concurrently; each await of a handler is a step. The
\* database is up: a statement fails only for a cause the schema gives it.
\* No handler compares times, so the clock stands still while they run.
BlogFrame ==
  UNCHANGED << statsVars, deriveVars, mediaVars, slugVars, authVars, routeVars >>

BlogFinish(r, status) ==
  breq' = [breq EXCEPT ![r].pc = "done", ![r].status = status]

BlogArrive(r, req) ==
  /\ breq[r].pc = "done"
  /\ blogCalls < MaxBlogCalls
  /\ blogCalls' = blogCalls + 1
  /\ breq' = [breq EXCEPT ![r] = req]

PostsWithId(id) == {row \in blog_posts : row.id = id}

\* a BEFORE UPDATE ... FOR EACH ROW trigger runs once per row the UPDATE
\* matches, so an UPDATE that matches no row does not raise
UpdateRaises(id) == blogTriggerRaises /\ PostsWithId(id) # {}

\* ---- GET /:slug
BlogGetArrive(r) ==
  /\ \E title \in BlogTitles :
       BlogArrive(r, [NoBlogRequest EXCEPT !.op = "get", !.pc = "select",
                                           !.slug = Slug(title)])
  /\ UNCHANGED << blogTriggerRaises, blog_posts, blog_comments, blogSerial, likeCalls >>
  /\ BlogFrame

\* SELECT ... WHERE slug = $1 AND status = 'published'
BlogGetSelect(r) ==
  /\ breq[r].op = "get" /\ breq[r].pc = "select"
  /\ LET posts == {row \in blog_posts :
                     row.slug = breq[r].slug /\ row.status = "published"}
     IN  IF posts = {} THEN BlogFinish(r, 404)
         ELSE \E post \in posts :
                breq' = [breq EXCEPT ![r].id = post.id, ![r].read = post.views,
                                     ![r].pc = "increment"]
  /\ UNCHANGED << blogTriggerRaises, blog_posts, blog_comments, blogSerial, blogCalls,
                  likeCalls >>
  /\ BlogFrame

\* a counter column of the post with this id, 0 when there is no such post
CounterOf(posts, id, column) ==
  LET found == {row[column] : row \in {x \in posts : x.id = id}}
  IN  IF found = {} THEN 0 ELSE CHOOSE v \in found : TRUE

\* UPDATE blog_posts SET <column> = <column> + 1 WHERE id = $1; the trigger,
\* when it does not raise, stamps the row
IncrementColumn(posts, id, column, t) ==
  {IF row.id = id THEN [row EXCEPT ![column] = @ + 1, !.updated_at = t] ELSE row :
     row \in posts}

BlogGetIncrement(r) ==
  /\ breq[r].op = "get" /\ breq[r].pc = "increment"
  /\ IF UpdateRaises(breq[r].id)
     THEN /\ BlogFinish(r, 500)
          /\ UNCHANGED blog_posts
     ELSE /\ blog_posts' = IncrementColumn(blog_posts, breq[r].id, "views", now)
          /\ breq' = [breq EXCEPT
                        ![r].pc = "related",
                        ![r].after = CounterOf(blog_posts', breq[r].id, "views")]
  /\ UNCHANGED << blogTriggerRaises, blog_comments, blogSerial, blogCalls, likeCalls >>
  /\ BlogFrame

\* the related posts are read and the post is answered with
\* views: (post.views || 0) + 1
BlogGetRespond(r) ==
  /\ breq[r].op = "get" /\ breq[r].pc = "related"
  /\ breq' = [breq EXCEPT ![r].returned = breq[r].read + 1, ![r].pc = "done",
                          ![r].status = 200]
  /\ UNCHANGED << blogTriggerRaises, blog_posts, blog_comments, blogSerial, blogCalls,
                  likeCalls >>
  /\ BlogFrame

\* ---- POST /:id/like
BlogLikeArrive(r) ==
  /\ \E id \in BlogIds :
       BlogArrive(r, [NoBlogRequest EXCEPT !.op = "like", !.pc = "update", !.id = id])
  /\ UNCHANGED << blogTriggerRaises, blog_posts, blog_comments, blogSerial, likeCalls >>
  /\ BlogFrame

\* UPDATE blog_posts SET likes = COALESCE(likes,0) + 1 WHERE id = $1
BlogLikeUpdate(r) ==
  /\ breq[r].op = "like" /\ breq[r].pc = "update"
  /\ likeCalls' = IF PostsWithId(breq[r].id) # {}
                  THEN [likeCalls EXCEPT ![breq[r].id] = @ + 1] ELSE likeCalls
  /\ IF UpdateRaises(breq[r].id)
     THEN /\ BlogFinish(r, 500)
          /\ UNCHANGED blog_posts
     ELSE /\ blog_posts' = IncrementColumn(blog_posts, breq[r].id, "likes", now)
          /\ breq' = [breq EXCEPT
                        ![r].pc = "select",
                        ![r].after = CounterOf(blog_posts', breq[r].id, "likes")]
  /\ UNCHANGED << blogTriggerRaises, blog_comments, blogSerial, blogCalls >>
  /\ BlogFrame

\* SELECT likes FROM blog_posts WHERE id = $1, answered as { likes }
BlogLikeSelect(r) ==
  /\ breq[r].op = "like" /\ breq[r].pc = "select"
  /\ IF PostsWithId(breq[r].id) = {} THEN BlogFinish(r, 404)
     ELSE \E post \in PostsWithId(breq[r].id) :
            breq' = [breq EXCEPT ![r].returned = post.likes, ![r].pc = "done",
                                 ![r].status = 200]
  /\ UNCHANGED << blogTriggerRaises, blog_posts, blog_comments, blogSerial, blogCalls,
                  likeCalls >>
  /\ BlogFrame

\* ---- POST / (admin)
BlogCreateArrive(r) ==
  /\ blogSerial.posts < MaxPosts
  /\ \E title \in BlogTitles, status \in {"draft", "published"} :
       BlogArrive(r, [NoBlogRequest EXCEPT !.op = "create", !.pc = "insert",
                                           !.title = title, !.poststatus = status,
                                           !.slug = Slug(title)])
  /\ UNCHANGED << blogTriggerRaises, blog_posts, blog_comments, blogSerial, likeCalls >>
  /\ BlogFrame

\* INSERT INTO blog_posts ... RETURNING id: slug is UNIQUE, and the sequence
\* has advanced also when the row is rejected
BlogCreateInsert(r) ==
  /\ breq[r].op = "create" /\ breq[r].pc = "insert"
  /\ blogSerial.posts < MaxPosts
  /\ blogSerial' = [blogSerial EXCEPT !.posts = @ + 1]
  /\ IF \E row \in blog_posts : row.slug = breq[r].slug
     THEN /\ BlogFinish(r, 500)
          /\ UNCHANGED blog_posts
     ELSE /\ blog_posts' = blog_posts \cup
            {[id |-> blogSerial.posts + 1, title |-> breq[r].title,
              slug |-> breq[r].slug, status |-> breq[r].poststatus,
              views |-> 0, likes |-> 0,
              published_at |-> IF breq[r].poststatus = "published" THEN now ELSE Never,
              updated_at |-> now]}
          /\ breq' = [breq EXCEPT ![r].pc = "done", ![r].status = 201,
                                  ![r].id = blogSerial.posts + 1]
  /\ UNCHANGED << blogTriggerRaises, blog_comments, blogCalls, likeCalls >>
  /\ BlogFrame

\* ---- PUT /:id (admin)
UpdateFields == {"title", "status", "views"}

\* the value a request body gives to a field it carries
BodyValue == [title |-> << "b" >>, status |-> "published", views |-> 7]

UpdateBodies == {[f \in S |-> BodyValue[f]] : S \in SUBSET UpdateFields}

\* req.body, with published_at added when it publishes the post
UpdateData(body, t) ==
  IF "status" \in DOMAIN body /\ body["status"] = "published"
  THEN [f \in DOMAIN body \cup {"published_at"} |->
          IF f = "published_at" THEN t ELSE body[f]]
  ELSE body

\* the fields are those of the body alone
UpdateData_BodyOnly(body, t) == body

BlogUpdateArrive(r) ==
  /\ \E id \in BlogIds, body \in UpdateBodies :
       BlogArrive(r, [NoBlogRequest EXCEPT !.op = "update", !.pc = "begin",
                                           !.id = id, !.body = body])
  /\ UNCHANGED << blogTriggerRaises, blog_posts, blog_comments, blogSerial, likeCalls >>
  /\ BlogFrame

\* lines 381-390: the statement is built, or the empty body is refused
BlogUpdateBegin(r) ==
  /\ breq[r].op = "update" /\ breq[r].pc = "begin"
  /\ LET updateData == UpdateData(breq[r].body, now)
     IN  IF DOMAIN updateData = {} THEN BlogFinish(r, 400)
         ELSE breq' = [breq EXCEPT ![r].updateData = updateData, ![r].pc = "update"]
  /\ UNCHANGED << blogTriggerRaises, blog_posts, blog_comments, blogSerial, blogCalls,
                  likeCalls >>
  /\ BlogFrame

\* UPDATE blog_posts SET f1 = $1, ..., updated_at = CURRENT_TIMESTAMP WHERE id = $n
SetFields(row, data, t) ==
  [f \in DOMAIN row |->
     IF f = "updated_at" THEN t ELSE IF f \in DOMAIN data THEN data[f] ELSE row[f]]

BlogUpdateExec(r) ==
  /\ breq[r].op = "update" /\ breq[r].pc = "update"
  /\ IF UpdateRaises(breq[r].id)
     THEN /\ BlogFinish(r, 500)
          /\ UNCHANGED blog_posts
     ELSE /\ blog_posts' = {IF row.id = breq[r].id
                              THEN SetFields(row, breq[r].updateData, now)
                              ELSE row : row \in blog_posts}
          /\ BlogFinish(r, 200)
  /\ UNCHANGED << blogTriggerRaises, blog_comments, blogSerial, blogCalls, likeCalls >>
  /\ BlogFrame

\* ---- DELETE /:id (admin)
BlogDeleteArrive(r) ==
  /\ \E id \in BlogIds :
       BlogArrive(r, [NoBlogRequest EXCEPT !.op = "delete", !.pc = "delete", !.id = id])
  /\ UNCHANGED << blogTriggerRaises, blog_posts, blog_comments, blogSerial, likeCalls >>
  /\ BlogFrame

\* the comments are left in place
DeleteCascade_NoAction(comments, id) == comments

\* FOREIGN KEY (post_id) REFERENCES blog_posts(id) ON DELETE CASCADE
DeleteCascade(comments, id) == {c \in comments : c.post_id # id}

\* DELETE FROM blog_posts WHERE id = $1
BlogDeleteExec(r) ==
  /\ breq[r].op = "delete" /\ breq[r].pc = "delete"
  /\ blog_posts' = blog_posts \ PostsWithId(breq[r].id)
  /\ blog_comments' = DeleteCascade(blog_comments, breq[r].id)
  /\ BlogFinish(r, 200)
  /\ UNCHANGED << blogTriggerRaises, blogSerial, blogCalls, likeCalls >>
  /\ BlogFrame

\* a comment row is inserted (no route of this server does it): the foreign
\* key admits only the id of an existing post
InsertComment ==
  /\ blogSerial.comments < MaxComments
  /\ \E post \in blog_posts :
       blog_comments' = blog_comments \cup
                          {[id |-> blogSerial.comments + 1, post_id |-> post.id]}
  /\ blogSerial' = [blogSerial EXCEPT !.comments = @ + 1]
  /\ UNCHANGED << blogTriggerRaises, blog_posts, blogCalls, likeCalls, breq >>
  /\ BlogFrame

BlogNext ==
  \/ \E r \in BlogReqs : BlogGetArrive(r)
  \/ \E r \in BlogReqs : BlogGetSelect(r)
  \/ \E r \in BlogReqs : BlogGetIncrement(r)
  \/ \E r \in BlogReqs : BlogGetRespond(r)
  \/ \E r \in BlogReqs : BlogLikeArrive(r)
  \/ \E r \in BlogReqs : BlogLikeUpdate(r)
  \/ \E r \in BlogReqs : BlogLikeSelect(r)
  \/ \E r \in BlogReqs : BlogCreateArrive(r)
  \/ \E r \in BlogReqs : BlogCreateInsert(r)
  \/ \E r \in BlogReqs : BlogUpdateArrive(r)
  \/ \E r \in BlogReqs : BlogUpdateBegin(r)
  \/ \E r \in BlogReqs : BlogUpdateExec(r)
  \/ \E r \in BlogReqs : BlogDeleteArrive(r)
  \/ \E r \in BlogReqs : BlogDeleteExec(r)
  \/ InsertComment

\* the blog routes alone
InitBlog == StatsIdle /\ RestInit({<< >>}, {<< >>}) /\ blogTriggerRaises \in BOOLEAN

SpecBlog == InitBlog /\ [][BlogNext]_vars

\* ------------------------------------------------------------ POST /login
\* "" stands for a field the body does not carry
LoginFrame ==
  UNCHANGED << statsVars, deriveVars, mediaVars, slugVars, blogVars, users,
               routeVars >>

LoginRespond(r, status, body) ==
  login' = [login EXCEPT ![r].pc = "done", ![r].resp = [status |-> status, body |-> body]]

MissingFieldsResponse == [message |-> "Email and password are required"]

UnknownEmailResponse_NotFound == [status |-> 404, body |-> [message |-> "User not found"]]

\* line 17
UnknownEmailResponse == [status |-> 401, body |-> [message |-> "Invalid credentials"]]

\* line 21
WrongPasswordResponse == [status |-> 401, body |-> [message |-> "Invalid credentials"]]

\* jwt.sign({ id, email, role }, JWT_SECRET, { expiresIn: '24h' })
JwtSign(user) == << "jwt", user.id, user.email, user.role >>

\* the request arrives; without both fields it is refused, otherwise the
\* SELECT is awaited
LoginArrive(r) ==
  /\ login[r].pc = "done"
  /\ \E email \in Emails \cup {""}, password \in Passwords \cup {""} :
       IF email = "" \/ password = ""
       THEN login' = [login EXCEPT
                        ![r] = [NoLogin EXCEPT
                                  !.email = email, !.password = password,
                                  !.resp = [status |-> 400,
                                            body |-> MissingFieldsResponse]]]
       ELSE login' = [login EXCEPT
                        ![r] = [NoLogin EXCEPT !.email = email, !.password = password,
                                               !.pc = "select"]]
  /\ LoginFrame

\* SELECT * FROM users WHERE email = $1 returns, or throws
LoginSelect(r) ==
  /\ login[r].pc = "select"
  /\ \/ LoginRespond(r, 500, [message |-> "Server error during login"])
     \/ LET found == {u \in users : u.email = login[r].email}
        IN  IF found = {}
            THEN LoginRespond(r, UnknownEmailResponse.status, UnknownEmailResponse.body)
            ELSE \E u \in found :
                   login' = [login EXCEPT ![r].user = u, ![r].pc = "compare"]
  /\ LoginFrame

\* bcrypt.compare resolves; a valid password is answered with a token
LoginCompare(r) ==
  /\ login[r].pc = "compare"
  /\ IF ~BcryptCompare(login[r].password, login[r].user.password)
     THEN LoginRespond(r, WrongPasswordResponse.status, WrongPasswordResponse.body)
     ELSE LoginRespond(r, 200, [token |-> JwtSign(login[r].user),
                                email |-> login[r].user.email,
                                role |-> login[r].user.role])
  /\ LoginFrame

LoginNext ==
  \/ \E r \in LoginReqs : LoginArrive(r)
  \/ \E r \in LoginReqs : LoginSelect(r)
  \/ \E r \in LoginReqs : LoginCompare(r)

\* the login route alone
InitLogin == StatsIdle /\ RestInit({<< >>}, {<< >>}) /\ blogTriggerRaises = TRUE

SpecLogin == InitLogin /\ [][LoginNext]_vars

\* ------------------------------------- the admin guard and what it guards
\* One guarded request is in flight at a time; each middleware and each await
\* of a handler is a step.
AdminFrame ==
  UNCHANGED << statsVars, deriveVars, mediaVars, slugVars, blogVars, login,
               contactVars, chatVars, lreq >>

DefaultAdminPassword == "admin123"

\* a row with the default role
Visitor ==
  [id |-> 2, email |-> "visitor@example.com", password |-> BcryptHash("guess"),
   role |-> "user"]

\* a row that was removed from users after a token had been signed for it
FormerUser ==
  [id |-> 3, email |-> "former@example.com", password |-> BcryptHash("guess"),
   role |-> "admin"]

\* createInitialAdmin resets the password of the row it finds and not its
\* role: the admin row is found with the role it was given
AdminRows == {BuiltInAdmin, [BuiltInAdmin EXCEPT !.role = "user"]}

\* what the Authorization header can carry: nothing, a token jwt.verify
\* rejects, an expired token, or a token this server signed
Bearers ==
  {NoBearer, [kind |-> "malformed", jwt |-> << >>],
   [kind |-> "expired", jwt |-> JwtSign(BuiltInAdmin)]} \cup
  {[kind |-> "valid", jwt |-> JwtSign(u)] : u \in AdminRows \cup {Visitor, FormerUser}}

\* decoded.id of a token that verifies
DecodedId(token) == token.jwt[2]

\* the middleware and handler of each route, as the routers declare them
RouteChain ==
  [projectPost    |-> << "isAuthenticated", "isAdmin", "upload", "handler" >>,
   projectPut     |-> << "isAuthenticated", "isAdmin", "upload", "handler" >>,
   projectDelete  |-> << "isAuthenticated", "isAdmin", "handler" >>,
   skillPost      |-> << "isAuthenticated", "isAdmin", "upload", "handler" >>,
   skillPut       |-> << "isAuthenticated", "isAdmin", "upload", "handler" >>,
   skillDelete    |-> << "isAuthenticated", "isAdmin", "handler" >>,
   blogPost       |-> << "isAuthenticated", "isAdmin", "handler" >>,
   blogPut        |-> << "isAuthenticated", "isAdmin", "handler" >>,
   blogDelete     |-> << "isAuthenticated", "isAdmin", "handler" >>,
   blogLike       |-> << "handler" >>,
   journeyPost    |-> << "isAuthenticated", "isAdmin", "handler" >>,
   journeyPut     |-> << "isAuthenticated", "isAdmin", "handler" >>,
   journeyDelete  |-> << "isAuthenticated", "isAdmin", "handler" >>,
   changePassword |-> << "isAuthenticated", "isAdmin", "handler" >>,
   contactPost    |-> << "handler" >>]

\* the routes whose handlers are steps of this part
HandledHere == {"journeyPost", "journeyPut", "journeyDelete", "changePassword"}

\* the middleware or handler the request in flight is about to enter
Stage ==
  IF areq.pc = "run" THEN RouteChain[areq.op][areq.stage] ELSE "none"

\* a body field that is absent
Undefined == "undefined"

\* !value
Falsy(value) == value \in {Undefined, ""}

JourneyTypes == {"education", "work", "project", "achievement"}

\* req.body of the journey routes, as far as title and type go (company and
\* start_date are sent and valid)
JourneyBodies == [title : {Undefined, "", "T"}, type : {"", "work"}]

PasswordBodies ==
  [currentPassword : {""} \cup Passwords, newPassword : {""} \cup Passwords]

BodiesOf(op) ==
  IF op \in {"journeyPost", "journeyPut"} THEN JourneyBodies
  ELSE IF op = "changePassword" THEN PasswordBodies
  ELSE {<< >>}

IdsOf(op) ==
  IF op \in {"journeyPut", "journeyDelete"} THEN 1..MaxJourney ELSE {0}

AdminRespond(status, message) ==
  areq' = [areq EXCEPT !.pc = "done",
                       !.resp = [status |-> status, body |-> [message |-> message]]]

\* next()
CallNext == areq' = [areq EXCEPT !.stage = @ + 1]

\* a request to one of the routes arrives
AdminArrive(routes) ==
  /\ areq.pc = "done"
  /\ \E op \in routes, token \in Bearers :
       /\ op = "journeyPost" => journeySerial < MaxJourney
       /\ \E body \in BodiesOf(op), id \in IdsOf(op) :
            areq' = [NoAdminRequest EXCEPT !.op = op, !.pc = "run", !.stage = 1,
                                           !.token = token, !.body = body, !.id = id]
  /\ UNCHANGED << users, journey_items, journeySerial, lastWrite >>
  /\ AdminFrame

\* isAuthenticated: the header is read, jwt.verify runs and the SELECT by
\* decoded.id returns or throws
IsAuthenticated ==
  /\ Stage = "isAuthenticated"
  /\ CASE areq.token.kind = "none" ->
            AdminRespond(401, "Access denied. No token provided.")
       [] areq.token.kind = "malformed" ->
            AdminRespond(401, "Invalid token. Please login again.")
       [] areq.token.kind = "expired" ->
            AdminRespond(401, "Token expired. Please login again.")
       [] areq.token.kind = "valid" ->
            \/ AdminRespond(401, "Authentication failed.")
            \/ LET found == {u \in users : u.id = DecodedId(areq.token)}
               IN  IF found = {}
                   THEN AdminRespond(401, "Invalid token. User not found.")
                   ELSE \E u \in found :
                          areq' = [areq EXCEPT !.user = u, !.stage = @ + 1]
  /\ UNCHANGED << users, journey_items, journeySerial, lastWrite >>
  /\ AdminFrame

IsAdminUser_AnyUser(user) == TRUE

\* isAdminByRole || isAdminByEmail
IsAdminUser(user) == user.role = "admin" \/ user.email = ADMIN_EMAIL

IsAdmin ==
  /\ Stage = "isAdmin"
  /\ IF IsAdminUser(areq.user)
     THEN CallNext
     ELSE AdminRespond(403, "Access denied. Admin privileges required.")
  /\ UNCHANGED << users, journey_items, journeySerial, lastWrite >>
  /\ AdminFrame

\* upload.single(...): multer takes the file and calls next()
Upload ==
  /\ Stage = "upload"
  /\ CallNext
  /\ UNCHANGED << users, journey_items, journeySerial, lastWrite >>
  /\ AdminFrame

\* the handler of a project, skill, blog or contact route is entered; what it
\* does from there is what the steps of those routes do
HandlerElsewhere ==
  /\ Stage = "handler" /\ areq.op \notin HandledHere
  /\ areq' = [areq EXCEPT !.reached = TRUE, !.pc = "done"]
  /\ UNCHANGED << users, journey_items, journeySerial, lastWrite >>
  /\ AdminFrame

\* ---- POST /journey
JourneyPostBegin ==
  /\ Stage = "handler" /\ areq.op = "journeyPost"
  /\ IF Falsy(areq.body.title) \/ Falsy(areq.body.type)
     THEN areq' = [areq EXCEPT
                     !.reached = TRUE, !.pc = "done",
                     !.resp = [status |-> 400,
                               body |-> [message |->
                                 "Title, company, start_date, and type are required"]]]
     ELSE areq' = [areq EXCEPT !.reached = TRUE, !.pc = "insert"]
  /\ UNCHANGED << users, journey_items, journeySerial, lastWrite >>
  /\ AdminFrame

\* INSERT INTO journey_items ... RETURNING id returns or throws
JourneyInsert ==
  /\ areq.pc = "insert"
  /\ \/ /\ areq.body.type \in JourneyTypes
        /\ journey_items' = journey_items \cup
             {[id |-> journeySerial + 1, title |-> areq.body.title,
               type |-> areq.body.type]}
        /\ journeySerial' = journeySerial + 1
        /\ areq' = [areq EXCEPT !.pc = "done", !.id = journeySerial + 1,
                                !.resp = [status |-> 201, body |-> areq.body]]
     \/ /\ AdminRespond(500, "Failed to create journey item")
        /\ UNCHANGED << journey_items, journeySerial >>
  /\ UNCHANGED << users, lastWrite >>
  /\ AdminFrame

\* ---- PUT /journey/:id: the body is read and the UPDATE is awaited
JourneyPutBegin ==
  /\ Stage = "handler" /\ areq.op = "journeyPut"
  /\ areq' = [areq EXCEPT !.reached = TRUE, !.pc = "update"]
  /\ UNCHANGED << users, journey_items, journeySerial, lastWrite >>
  /\ AdminFrame

\* what PostgreSQL raises while it updates a row: the BEFORE UPDATE trigger
\* assigns NEW.updatedAt, a column journey_items does not have; title is
\* NOT NULL; type is NOT NULL and checked against the four types
JourneyUpdateRaises(body) ==
  blogTriggerRaises \/ body.title = Undefined \/ body.type \notin JourneyTypes

\* the UPDATE returns or throws; nothing asks how many rows it changed
JourneyUpdate ==
  /\ areq.pc = "update" /\ areq.op = "journeyPut"
  /\ LET matched == {row \in journey_items : row.id = areq.id}
     IN  \/ /\ matched # {} => ~JourneyUpdateRaises(areq.body)
            /\ journey_items' =
                 {IF row.id = areq.id
                    THEN [row EXCEPT !.title = areq.body.title,
                                     !.type = areq.body.type]
                    ELSE row : row \in journey_items}
            /\ areq' = [areq EXCEPT !.pc = "done",
                                    !.resp = [status |-> 200, body |-> areq.body]]
         \/ /\ AdminRespond(500, "Failed to update journey item")
            /\ UNCHANGED journey_items
  /\ UNCHANGED << users, journeySerial, lastWrite >>
  /\ AdminFrame

\* ---- DELETE /journey/:id
JourneyDeleteBegin ==
  /\ Stage = "handler" /\ areq.op = "journeyDelete"
  /\ areq' = [areq EXCEPT !.reached = TRUE, !.pc = "delete"]
  /\ UNCHANGED << users, journey_items, journeySerial, lastWrite >>
  /\ AdminFrame

JourneyDelete ==
  /\ areq.pc = "delete"
  /\ \/ /\ journey_items' = {row \in journey_items : row.id # areq.id}
        /\ AdminRespond(200, "Journey item deleted successfully")
     \/ /\ AdminRespond(500, "Failed to delete journey item")
        /\ UNCHANGED journey_items
  /\ UNCHANGED << users, journeySerial, lastWrite >>
  /\ AdminFrame

\* ---- POST /auth/change-password
ChangePasswordBegin ==
  /\ Stage = "handler" /\ areq.op = "changePassword"
  /\ IF Falsy(areq.body.currentPassword) \/ Falsy(areq.body.newPassword)
     THEN areq' = [areq EXCEPT
                     !.reached = TRUE, !.pc = "done",
                     !.resp = [status |-> 400,
                               body |-> [message |->
                                 "Current and new passwords are required"]]]
     ELSE areq' = [areq EXCEPT !.reached = TRUE, !.pc = "select"]
  /\ UNCHANGED << users, journey_items, journeySerial, lastWrite >>
  /\ AdminFrame

\* SELECT * FROM users WHERE id = $1 returns or throws
ChangePasswordSelect ==
  /\ areq.pc = "select"
  /\ \/ AdminRespond(500, "Server error during password change")
     \/ LET found == {u \in users : u.id = areq.user.id}
        IN  IF found = {}
            THEN AdminRespond(404, "User not found")
            ELSE \E u \in found : areq' = [areq EXCEPT !.user = u, !.pc = "compare"]
  /\ UNCHANGED << users, journey_items, journeySerial, lastWrite >>
  /\ AdminFrame

\* bcrypt.compare resolves; then the new password is hashed and the UPDATE
\* is awaited
ChangePasswordCompare ==
  /\ areq.pc = "compare"
  /\ IF ~BcryptCompare(areq.body.currentPassword, areq.user.password)
     THEN AdminRespond(401, "Current password is incorrect")
     ELSE areq' = [areq EXCEPT !.pc = "update"]
  /\ UNCHANGED << users, journey_items, journeySerial, lastWrite >>
  /\ AdminFrame

\* UPDATE users SET password = $1 WHERE id = $2 returns or throws
ChangePasswordUpdate ==
  /\ areq.pc = "update" /\ areq.op = "changePassword"
  /\ \/ /\ users' = {IF u.id = areq.user.id
                       THEN [u EXCEPT !.password = BcryptHash(areq.body.newPassword)]
                       ELSE u : u \in users}
        /\ lastWrite' = "change"
        /\ AdminRespond(200, "Password updated successfully")
     \/ /\ AdminRespond(500, "Server error during password change")
        /\ UNCHANGED << users, lastWrite >>
  /\ UNCHANGED << journey_items, journeySerial >>
  /\ AdminFrame

AdminStep ==
  \/ AdminArrive(DOMAIN RouteChain)
  \/ IsAuthenticated
  \/ IsAdmin
  \/ Upload
  \/ HandlerElsewhere
  \/ JourneyPostBegin
  \/ JourneyInsert
  \/ JourneyPutBegin
  \/ JourneyUpdate
  \/ JourneyDeleteBegin
  \/ JourneyDelete
  \/ ChangePasswordBegin
  \/ ChangePasswordSelect
  \/ ChangePasswordCompare
  \/ ChangePasswordUpdate

\* the guarded routes alone, on each table of users a start can find
InitAdmin ==
  /\ StatsIdle
  /\ RestInitOn({<< >>}, {<< >>}, {{a, Visitor} : a \in AdminRows}, {{EarlierPost}})
  /\ blogTriggerRaises = TRUE

SpecAdmin == InitAdmin /\ [][AdminStep]_vars

\* ---- a start of the server: createInitialAdmin
ResetAdmin_KeepExisting(table) ==
  IF \E u \in table : u.email = ADMIN_EMAIL THEN table
  ELSE table \cup {[BuiltInAdmin EXCEPT !.id = 4]}

\* the row of the admin's email gets the hash of the default password; when
\* there is none, a row is inserted (ids 1 to 3 have been given out)
ResetAdmin(table) ==
  IF \E u \in table : u.email = ADMIN_EMAIL
  THEN {IF u.email = ADMIN_EMAIL
          THEN [u EXCEPT !.password = BcryptHash(DefaultAdminPassword)]
          ELSE u : u \in table}
  ELSE table \cup {[BuiltInAdmin EXCEPT !.id = 4]}

\* the process starts again: the requests in flight are lost, and
\* createInitialAdmin runs before the routes are mounted; what it throws is
\* caught and logged, and the start goes on
ServerStart ==
  /\ areq' = IF areq.pc = "done" THEN areq ELSE NoAdminRequest
  /\ login' = [r \in LoginReqs |-> IF login[r].pc = "done" THEN login[r] ELSE NoLogin]
  /\ \/ users' = ResetAdmin(users) /\ lastWrite' = "start"
     \/ UNCHANGED << users, lastWrite >>
  /\ UNCHANGED << journey_items, journeySerial >>
  /\ UNCHANGED << statsVars, deriveVars, mediaVars, slugVars, blogVars,
                  contactVars, chatVars, lreq >>

PasswordNext ==
  \/ AdminArrive({"changePassword"})
  \/ IsAuthenticated
  \/ IsAdmin
  \/ ChangePasswordBegin
  \/ ChangePasswordSelect
  \/ ChangePasswordCompare
  \/ ChangePasswordUpdate
  \/ ServerStart
  \/ LoginArrive(1)
  \/ LoginSelect(1)
  \/ LoginCompare(1)

\* logins (one at a time), password changes and starts; the first start has
\* stored the admin, or has failed to
InitPassword ==
  /\ StatsIdle
  /\ RestInitOn({<< >>}, {<< >>}, {{BuiltInAdmin, Visitor}, {Visitor}}, {{EarlierPost}})
  /\ blogTriggerRaises = TRUE

SpecPassword == InitPassword /\ [][PasswordNext]_vars

\* ---------------------------------------------------------- POST /contact
\* Two requests run concurrently; each await of the handler is a step, and
\* each of the two mails settles in a step of its own.
ContactFrame ==
  UNCHANGED << statsVars, deriveVars, mediaVars, slugVars, blogVars, authVars,
               adminVars, chatVars, lreq >>

\* req.body as the validation reads it: the length of each trimmed field (0
\* when the field is missing or empty) and whether the email has the shape
\* the pattern asks for
ContactBodies ==
  [name : {1, 2}, emailValid : BOOLEAN, subject : {2, 3}, message : {9, 10}]

\* the message of the first check that fails, or "" when all pass
ValidationError(body) ==
  IF body.name < 2 THEN "Name must be at least 2 characters"
  ELSE IF ~body.emailValid THEN "Valid email is required"
  ELSE IF body.subject < 3 THEN "Subject must be at least 3 characters"
  ELSE IF body.message < 10 THEN "Message must be at least 10 characters"
  ELSE ""

Mails == {"admin", "user"}

AfterMailFailure_Rollback(table, id) == {row \in table : row.id # id}

\* the catch block logs and answers; it issues no statement
AfterMailFailure(table, id) == table

ContactRespond(r, status, message) ==
  creq' = [creq EXCEPT ![r].pc = "done",
                       ![r].resp = [status |-> status, body |-> [message |-> message]]]

\* the request arrives and is validated; the INSERT is awaited
ContactArrive(r) ==
  /\ creq[r].pc = "done"
  /\ \A m \in Mails : creq[r].mail[m] # "pending"
  /\ contactSerial + Cardinality({q \in ContactReqs : creq[q].pc = "insert"})
       < MaxMessages
  /\ \E body \in ContactBodies :
       IF ValidationError(body) # ""
       THEN creq' = [creq EXCEPT
                       ![r] = [NoContact EXCEPT
                                 !.body = body,
                                 !.resp = [status |-> 400,
                                           body |-> [message |->
                                                       ValidationError(body)]]]]
       ELSE creq' = [creq EXCEPT ![r] = [NoContact EXCEPT !.body = body,
                                                          !.pc = "insert"]]
  /\ UNCHANGED << contact_messages, contactSerial >>
  /\ ContactFrame

\* the INSERT returns or throws; when it has returned, both sendMail calls
\* are made and Promise.all is awaited
ContactInsert(r) ==
  /\ creq[r].pc = "insert"
  /\ \/ /\ contact_messages' = contact_messages \cup
             {[id |-> contactSerial + 1, body |-> creq[r].body]}
        /\ contactSerial' = contactSerial + 1
        /\ creq' = [creq EXCEPT ![r].pc = "mail", ![r].id = contactSerial + 1,
                                ![r].mail = [m \in Mails |-> "pending"]]
     \/ /\ ContactRespond(r, 500, "Server error while processing contact form")
        /\ UNCHANGED << contact_messages, contactSerial >>
  /\ ContactFrame

\* one of the two mails is sent, or its sending fails
SendMail(r, m) ==
  /\ creq[r].mail[m] = "pending"
  /\ \E outcome \in {"sent", "failed"} :
       creq' = [creq EXCEPT ![r].mail[m] = outcome]
  /\ UNCHANGED << contact_messages, contactSerial >>
  /\ ContactFrame

\* Promise.all settles: it rejects as soon as one mail has failed, and
\* resolves when both are sent
ContactSettle(r) ==
  /\ creq[r].pc = "mail"
  /\ \/ /\ \E m \in Mails : creq[r].mail[m] = "failed"
        /\ contact_messages' = AfterMailFailure(contact_messages, creq[r].id)
        /\ ContactRespond(r, 500, "Server error while processing contact form")
     \/ /\ \A m \in Mails : creq[r].mail[m] = "sent"
        /\ ContactRespond(r, 200, "Message sent successfully and stored in database")
        /\ UNCHANGED contact_messages
  /\ UNCHANGED contactSerial
  /\ ContactFrame

ContactNext ==
  \/ \E r \in ContactReqs : ContactArrive(r)
  \/ \E r \in ContactReqs : ContactInsert(r)
  \/ \E r \in ContactReqs, m \in Mails : SendMail(r, m)
  \/ \E r \in ContactReqs : ContactSettle(r)

\* the contact route alone
InitContact == StatsIdle /\ RestInit({<< >>}, {<< >>}) /\ blogTriggerRaises = TRUE

SpecContact == InitContact /\ [][ContactNext]_vars

\* ------------------------------------------------------ POST /chatbot/chat
\* Two requests run concurrently; each await of the handler is a step. The
\* database is up, and every exchange is of one day.
ChatFrame ==
  UNCHANGED << statsVars, deriveVars, mediaVars, slugVars, blogVars, authVars,
               adminVars, contactVars, lreq >>

\* the session ids clients send
ClientSessions == {<< "client", 1 >>, << "client", 2 >>}

\* sessionId || `session_${Date.now()}_${random}`: a generated id is new
SessionOf(sessionId, r) ==
  IF sessionId # << >> THEN sessionId ELSE << "session", r, chatSerial >>

\* INSERT INTO chat_stats ... ON CONFLICT (date) DO UPDATE ...: the first
\* exchange of the day inserts (1, 1); a later one adds 1 to total_messages,
\* and 1 to unique_sessions when the session has exactly one exchange stored
UpsertChatStats(table, conversations, session) ==
  IF table = {}
  THEN {[total_messages |-> 1, unique_sessions |-> 1]}
  ELSE {[row EXCEPT
           !.total_messages = @ + 1,
           !.unique_sessions =
             @ + (IF Cardinality({c \in conversations : c.session_id = session}) = 1
                  THEN 1 ELSE 0)] : row \in table}

\* the request arrives; an empty message is refused, otherwise the INSERT of
\* the exchange is awaited
ChatArrive(r) ==
  /\ chatreq[r].pc = "done"
  /\ chatSerial + Cardinality({q \in ChatReqs : chatreq[q].pc = "insert"}) < MaxChats
  /\ \E empty \in BOOLEAN, sessionId \in ClientSessions \cup {<< >>} :
       IF empty
       THEN chatreq' = [chatreq EXCEPT
                          ![r] = [NoChat EXCEPT
                                    !.resp = [status |-> 400,
                                              body |-> [error |->
                                                          "Message is required"]]]]
       ELSE chatreq' = [chatreq EXCEPT
                          ![r] = [NoChat EXCEPT !.pc = "insert",
                                                !.session = SessionOf(sessionId, r)]]
  /\ UNCHANGED << chat_conversations, chat_stats, chatSerial >>
  /\ ChatFrame

\* INSERT INTO chat_conversations returns; the upsert is awaited
ChatInsert(r) ==
  /\ chatreq[r].pc = "insert"
  /\ chat_conversations' = chat_conversations \cup
       {[id |-> chatSerial + 1, session_id |-> chatreq[r].session]}
  /\ chatSerial' = chatSerial + 1
  /\ chatreq' = [chatreq EXCEPT ![r].pc = "upsert"]
  /\ UNCHANGED chat_stats
  /\ ChatFrame

\* the upsert of chat_stats returns and the answer is sent
ChatUpsert(r) ==
  /\ chatreq[r].pc = "upsert"
  /\ chat_stats' = UpsertChatStats(chat_stats, chat_conversations, chatreq[r].session)
  /\ chatreq' = [chatreq EXCEPT
                   ![r].pc = "done",
                   ![r].resp = [status |-> 200,
                                body |-> [sessionId |-> chatreq[r].session]]]
  /\ UNCHANGED << chat_conversations, chatSerial >>
  /\ ChatFrame

ChatNext ==
  \/ \E r \in ChatReqs : ChatArrive(r)
  \/ \E r \in ChatReqs : ChatInsert(r)
  \/ \E r \in ChatReqs : ChatUpsert(r)

\* the chat route alone
InitChat == StatsIdle /\ RestInit({<< >>}, {<< >>}) /\ blogTriggerRaises = TRUE

SpecChat == InitChat /\ [][ChatNext]_vars

\* --------------------------------------------------------------- GET /blog
\* One list request at a time, on each table of posts below; each of its two
\* queries is a step, and no other request writes between them.
ListFrame ==
  UNCHANGED << statsVars, deriveVars, mediaVars, slugVars, blogVars, authVars,
               adminVars, contactVars, chatVars >>

\* req.query: page and limit as parseInt reads them; "" stands for a
\* parameter that is not sent
ListQueries ==
  [page : {1, 2}, limit : {1, 2}, category : {"", "tech"}, featured : {"", "true"}]

\* WHERE status = 'published' [AND category = $1] [AND featured = true]
SelectedPosts(table, query) ==
  {row \in table :
     /\ row.status = "published"
     /\ query.category # "" => row.category = query.category
     /\ query.featured = "true" => row.featured}

\* WHERE status = 'published' [AND category = $1]
CountedPosts(table, query) ==
  {row \in table :
     /\ row.status = "published"
     /\ query.category # "" => row.category = query.category}

\* ORDER BY published_at DESC
RECURSIVE ByPublishedDesc(_)
ByPublishedDesc(rows) ==
  IF rows = {} THEN << >>
  ELSE LET first == CHOOSE row \in rows :
                      \A other \in rows : other.published_at <= row.published_at
       IN  << first >> \o ByPublishedDesc(rows \ {first})

\* LIMIT $n OFFSET $m
LimitOffset(s, limit, offset) ==
  SubSeq(s, offset + 1, IF offset + limit < Len(s) THEN offset + limit ELSE Len(s))

\* Math.ceil(total / limit), limit > 0
Ceil(total, limit) == (total + limit - 1) \div limit

ListFail ==
  lreq' = [lreq EXCEPT !.pc = "done",
                       !.resp = [status |-> 500,
                                 body |-> [message |-> "Failed to fetch blog posts"]]]

\* the request arrives; the SELECT of the page is awaited
ListArrive ==
  /\ lreq.pc = "done"
  /\ \E query \in ListQueries :
       lreq' = [NoList EXCEPT !.pc = "select", !.query = query]
  /\ ListFrame

\* the SELECT of the page returns or throws; the count is awaited
ListSelect ==
  /\ lreq.pc = "select"
  /\ \/ lreq' = [lreq EXCEPT
                   !.pc = "count",
                   !.posts = LimitOffset(
                               ByPublishedDesc(SelectedPosts(blog_posts, lreq.query)),
                               lreq.query.limit,
                               (lreq.query.page - 1) * lreq.query.limit)]
     \/ ListFail
  /\ ListFrame

\* the count returns or throws, and the answer is sent
ListCount ==
  /\ lreq.pc = "count"
  /\ \/ LET total == Cardinality(CountedPosts(blog_posts, lreq.query))
        IN  lreq' = [lreq EXCEPT
                       !.pc = "done",
                       !.resp = [status |-> 200,
                                 body |-> [posts |-> lreq.posts,
                                           pagination |->
                                             [page |-> lreq.query.page,
                                              limit |-> lreq.query.limit,
                                              total |-> total,
                                              pages |-> Ceil(total,
                                                             lreq.query.limit)]]]]
     \/ ListFail
  /\ ListFrame

ListNext == ListArrive \/ ListSelect \/ ListCount

\* the posts the admin has created besides the earlier one
ListedPost(id, status, category, featured, at) ==
  [EarlierPost EXCEPT !.id = id, !.status = status, !.published_at = at,
                      !.updated_at = at, !.title = << "A", "7" >>,
                      !.slug = << "a", "7" >>]
    @@ [category |-> category, featured |-> featured]

PostTables ==
  {{EarlierPost @@ [category |-> "tech", featured |-> FALSE]} \cup created :
     created \in SUBSET {ListedPost(2, "published", "tech", TRUE, -10),
                         ListedPost(3, "published", "life", TRUE, -5),
                         ListedPost(4, "draft", "tech", TRUE, Never)}}

\* the list route alone, on each of these tables
InitList ==
  /\ StatsIdle
  /\ RestInitOn({<< >>}, {<< >>}, {{BuiltInAdmin}}, PostTables)
  /\ blogTriggerRaises = TRUE

SpecList == InitList /\ [][ListNext]_vars

\* ================================================================== claims
\* the columns of a row that a refresh computes
DataColumns ==
  {"username", "public_repos", "followers", "following", "total_commits",
   "total_stars", "total_forks", "languages", "repositories"}

\* the row holds, column by column, what the stats object st holds
RowMatches(row, st) ==
  /\ row.username = GITHUB_USERNAME
  /\ row.public_repos = st.totalRepos
  /\ row.followers = st.followers
  /\ row.following = st.following
  /\ row.total_commits = st.totalCommits
  /\ row.total_stars = st.totalStars
  /\ row.total_forks = st.totalForks
  /\ row.languages = st.languages
  /\ row.repositories = st.topRepos

\* the body carries every column of the row, unchanged
CarriesRow(body, row) ==
  /\ DOMAIN row \subseteq DOMAIN body
  /\ \A f \in DOMAIN row : body[f] = row[f]

\* request r answers, in this step, the failure of a mandatory call
AnswersApiError(r) == pc[r] = "apiError" /\ pc'[r] = "done"

RetryLater == "Please try again later"

\* C1 as stated: with nothing ever stored and a mandatory call failed, the
\* answer (the fallback lookup having returned) is a 503 that carries the
\* upstream reason and a suggestion to retry, and nothing is written.
C1_Original ==
  [][\A r \in Reqs :
       (AnswersApiError(r) /\ github_stats = {} /\ resp'[r].status # 500) =>
         /\ resp'[r].status = 503
         /\ resp'[r].body.error \in {apiError[r].message, "Service unavailable"}
         /\ resp'[r].body.suggestion = RetryLater
         /\ github_stats' = {}]_vars

\* C1 amended: with nothing ever stored and a mandatory call failed, the answer
\* is never a 200 and nothing is written: it is a 500 when the fallback lookup
\* itself throws, and otherwise a 503 whose error is the upstream's message
\* (or "Service unavailable" when the upstream sent none) and whose suggestion
\* is to retry later, except after a 401 or 403, when it is to replace the
\* token.
C1_Unavailable ==
  [][\A r \in Reqs :
       (AnswersApiError(r) /\ github_stats = {}) =>
         /\ github_stats' = {}
         /\ \/ resp'[r].status = 500
            \/ /\ resp'[r].status = 503
               /\ resp'[r].body.error =
                    (IF apiError[r].message # "" THEN apiError[r].message
                     ELSE "Service unavailable")
               /\ (apiError[r].status \in {401, 403}) =>
                    resp'[r].body.suggestion # RetryLater
               /\ (apiError[r].status \notin {401, 403}) =>
                    resp'[r].body.suggestion = RetryLater]_vars

C1_Witness ==
  \E r \in Reqs :
    /\ pc[r] = "done" /\ resp[r].status = 503
    /\ apiError[r].status = 401 /\ github_stats = {}

\* C2: a request that looks up the cache while a row younger than 15 minutes
\* is stored ends right there, has issued no upstream call, leaves the table
\* as it was, and a 200 answer carries that row, column for column, tagged
\* cached and not stale.
C2_FreshHit ==
  [][\A r \in Reqs :
       (pc[r] = "start" /\ pc'[r] # "start" /\ FreshRows(github_stats, now) # {}) =>
         /\ pc'[r] = "done"
         /\ calls'[r] = 0
         /\ github_stats' = github_stats
         /\ resp'[r].status \in {200, 500}
         /\ resp'[r].status = 200 =>
              /\ \E row \in github_stats :
                   /\ CarriesRow(resp'[r].body, row)
                   /\ now - row.last_updated < CACHE_MINUTES
              /\ resp'[r].body.cached = TRUE
              /\ "stale" \notin DOMAIN resp'[r].body]_vars

C2_Witness ==
  \E r \in Reqs :
    /\ pc[r] = "done" /\ resp[r].status = 200 /\ calls[r] = 0
    /\ resp[r].body.cached = TRUE /\ "stale" \notin DOMAIN resp[r].body
    /\ resp[r].body.cacheAge > 0
    /\ \E q \in Reqs : wrote[q]

\* C3: the table changes only in the upsert step of a request whose two
\* mandatory calls succeeded; a request whose mandatory call failed never
\* changes it.
C3_WriteOnSuccessOnly ==
  /\ [](\A r \in Reqs : apiError[r] # NoError => ~wrote[r])
  /\ [][github_stats' # github_stats =>
          \E r \in Reqs :
            /\ pc[r] = "upsert" /\ pc'[r] = "done"
            /\ apiError[r] = NoError /\ fetchedAt[r] # Never]_vars

C3_Witness ==
  \E r \in Reqs :
    /\ pc[r] = "done" /\ apiError[r] # NoError /\ resp[r].status = 200
    /\ \E q \in Reqs : wrote[q]

\* request r answers, in this step, with a snapshot it did not fetch itself
\* although the freshness check had failed
ServesFallback(r) ==
  pc[r] \in {"apiError", "noToken"} /\ pc'[r] = "done" /\ resp'[r].status = 200

\* C4 as stated: every fallback answer is the stored row whatever its age,
\* tagged stale, with cacheAge = now - last_updated.
C4_Original ==
  [][\A r \in Reqs :
       ServesFallback(r) =>
         \E row \in LatestRows(github_stats) :
           /\ CarriesRow(resp'[r].body, row)
           /\ "stale" \in DOMAIN resp'[r].body /\ resp'[r].body.stale = TRUE
           /\ "cacheAge" \in DOMAIN resp'[r].body
           /\ resp'[r].body.cacheAge = (now - row.last_updated) * MsPerMinute]_vars

\* C4 amended: every fallback answer is the stored row whatever its age,
\* tagged stale; after a failed mandatory call it carries
\* cacheAge = now - last_updated, and when the token is missing it carries a
\* warning and no age value.
C4_StaleFallback ==
  [][\A r \in Reqs :
       ServesFallback(r) =>
         \E row \in LatestRows(github_stats) :
           /\ CarriesRow(resp'[r].body, row)
           /\ "stale" \in DOMAIN resp'[r].body /\ resp'[r].body.stale = TRUE
           /\ pc[r] = "apiError" =>
                /\ "cacheAge" \in DOMAIN resp'[r].body
                /\ resp'[r].body.cacheAge = (now - row.last_updated) * MsPerMinute
           /\ pc[r] = "noToken" =>
                /\ "cacheAge" \notin DOMAIN resp'[r].body
                /\ "warning" \in DOMAIN resp'[r].body]_vars

C4_Witness ==
  \E r \in Reqs :
    /\ pc[r] = "done" /\ apiError[r] # NoError /\ resp[r].status = 200
    /\ resp[r].body.stale = TRUE
    /\ resp[r].body.cacheAge >= CACHE_MINUTES * MsPerMinute

\* C5: the table never holds two rows of one username; an upsert into the
\* empty table leaves exactly one row, and an upsert onto a stored row
\* rewrites that row (its created_at stays).
C5_OneRowPerUser ==
  /\ [](\A a \in github_stats, b \in github_stats : a.username = b.username => a = b)
  /\ [][\A r \in Reqs :
          (~wrote[r] /\ wrote'[r]) =>
            /\ Cardinality(github_stats') = 1
            /\ \A old \in github_stats, new \in github_stats' :
                 new.created_at = old.created_at]_vars

C5_Witness ==
  /\ \A r \in Reqs : wrote[r]
  /\ Cardinality(github_stats) = 1
  /\ \E r \in Reqs : \E row \in github_stats : row.created_at < fetchedAt[r]

C7_Original ==
  github_stats # {} => \A r \in Reqs : wrote[r] => fetchedAt[r] <= storedFetchedAt

\* C7 amended: the stored row holds the data of the refresh whose upsert ran
\* last (last writer wins): each upsert that goes through leaves the row equal
\* to what that request computed, stamped with the time of the upsert, also
\* when the row it replaces came from a later fetch.
C7_LastWriterWins ==
  [][\A r \in Reqs :
       (~wrote[r] /\ wrote'[r]) =>
         \A row \in github_stats' :
           RowMatches(row, stats[r]) /\ row.last_updated = now]_vars

C7_Witness ==
  /\ github_stats # {}
  /\ \E r, q \in Reqs :
       /\ wrote[r] /\ wrote[q] /\ fetchedAt[q] > fetchedAt[r]
       /\ storedFetchedAt = fetchedAt[r]
       /\ \A row \in github_stats : RowMatches(row, stats[r]) /\ ~RowMatches(row, stats[q])

\* total of all bytes in the responses given
InputBytes ==
  SumSeq([i \in 1..Len(inLanguageResults) |->
            SumOver(inLanguageResults[i], DOMAIN inLanguageResults[i])])

BytesOf(lang) ==
  SumSeq([i \in 1..Len(inLanguageResults) |->
            IF lang \in DOMAIN inLanguageResults[i] THEN inLanguageResults[i][lang] ELSE 0])

ShareSum == SumOver(outLanguages, DOMAIN outLanguages)

\* C8: each share is the language's bytes over the total, times 100, rounded
\* to the nearest whole (at most half a point off); so the shares sum to 0
\* when there is no language data and otherwise to 100 give or take half a
\* point per language.
C8_ShareSum ==
  applied = "languages" =>
    /\ DOMAIN outLanguages = UNION {DOMAIN inLanguageResults[i] : i \in 1..Len(inLanguageResults)}
    /\ InputBytes = 0 => ShareSum = 0
    /\ InputBytes > 0 =>
         /\ \A lang \in DOMAIN outLanguages :
              /\ 2 * InputBytes * outLanguages[lang] <= 200 * BytesOf(lang) + InputBytes
              /\ 2 * InputBytes * outLanguages[lang] > 200 * BytesOf(lang) - InputBytes
         /\ 2 * (ShareSum - 100) <= Cardinality(DOMAIN outLanguages)
         /\ 2 * (100 - ShareSum) <= Cardinality(DOMAIN outLanguages)

C8_Witness ==
  /\ applied = "languages" /\ Len(inLanguageResults) = 2
  /\ Cardinality(DOMAIN outLanguages) = 3 /\ ShareSum = 99

\* repository k of the input ranks before repository m: more stars, or as
\* many and earlier in the provider's response
RanksBefore(k, m) ==
  \/ inReposData[k].stargazers_count > inReposData[m].stargazers_count
  \/ /\ inReposData[k].stargazers_count = inReposData[m].stargazers_count
     /\ k < m

\* out is the first TopN of the candidates in rank order
IsTopOf(out, candidates) ==
  /\ Len(out) = Min(TopN, Cardinality(candidates))
  /\ \A i \in 1..Len(out) :
       /\ out[i].name \in candidates
       /\ out[i].stars = inReposData[out[i].name].stargazers_count
  /\ \A i, j \in 1..Len(out) : i < j => RanksBefore(out[i].name, out[j].name)
  /\ \A k \in candidates :
       (\A i \in 1..Len(out) : out[i].name # k) =>
         \A i \in 1..Len(out) : RanksBefore(out[i].name, k)

\* C9 as stated: the list is the top 5 of the fetched repositories by stars,
\* descending, ties in the provider's order.
C9_Original ==
  applied = "top" => IsTopOf(outTopRepos, DOMAIN inReposData)

\* C9 amended: the list is the top 5 of the fetched repositories that are not
\* forks, by stars, descending, ties in the provider's order.
C9_TopNonForks ==
  applied = "top" =>
    IsTopOf(outTopRepos, {k \in DOMAIN inReposData : ~inReposData[k].fork})

C9_Witness ==
  /\ applied = "top" /\ Len(outTopRepos) = TopN
  /\ Cardinality({k \in DOMAIN inReposData : ~inReposData[k].fork}) > TopN
  /\ \E k \in DOMAIN inReposData : inReposData[k].fork
  /\ \E i \in 1..(TopN - 1) : outTopRepos[i].stars = outTopRepos[i + 1].stars
  /\ outTopRepos[1].stars > outTopRepos[TopN].stars

\* the asset the entity of the request references now, and whether it is live
ProjectRefLive ==
  \A row \in projects :
    row.id = mreq.id =>
      row.cloudinary_public_id # Null /\ row.cloudinary_public_id \in cloudinary

SkillRefLive ==
  \A row \in skills :
    row.id = mreq.id => row.iconurl # Null /\ row.iconurl \in skillFiles

\* C10: when an update of a project or skill that carried a new image has
\* completed, with whatever status, on an entity that referenced an asset, the
\* entity references one asset and that asset exists in the media store.
C10_OneLiveAsset ==
  (mreq.pc = "done" /\ mreq.file # Null /\ mreq.existing # Null) =>
    /\ mreq.op = "projectPut" => ProjectRefLive
    /\ mreq.op = "skillPut" => SkillRefLive

\* the reference column of the row the request addresses
RefsOfRequest ==
  IF mreq.op \in {"projectPut", "projectDelete"}
  THEN {row.cloudinary_public_id : row \in {x \in projects : x.id = mreq.id}}
  ELSE {row.iconurl : row \in {x \in skills : x.id = mreq.id}}

\* C11: when an update of a project or skill that carried a new image has
\* completed and the deletion of the previous asset failed on the way, the
\* request has succeeded and the row references the new asset.
C11_DeleteFailureIgnored ==
  (/\ mreq.pc = "done" /\ mreq.op \in {"projectPut", "skillPut"}
   /\ mreq.file # Null /\ mreq.deleteFailed) =>
    /\ mreq.status = 200
    /\ RefsOfRequest = {mreq.file}

\* C12: when a delete of a project or skill that has an asset has completed
\* and the deletion of the asset failed on the way, the request has succeeded
\* and the row is gone.
C12_AssetFailureNotSurfaced ==
  (/\ mreq.pc = "done" /\ mreq.op \in {"projectDelete", "skillDelete"}
   /\ mreq.existing # Null /\ mreq.deleteFailed) =>
    /\ mreq.status = 200
    /\ RefsOfRequest = {}

\* C13: no step of an update that carries no new image and no reference field
\* changes a stored reference or removes an asset.
C13_AbsentReferenceUntouched ==
  [][(/\ mreq.op \in {"projectPut", "skillPut"} /\ mreq.pc # "done"
      /\ mreq.file = Null /\ mreq.iconUrl = Null) =>
       /\ projects' = projects /\ skills' = skills
       /\ cloudinary' = cloudinary /\ skillFiles' = skillFiles]_vars

\* no asset is referenced by two rows
NoSharedAsset ==
  /\ \A r1, r2 \in skills :
       (r1.id # r2.id /\ r1.iconurl # Null) => r1.iconurl # r2.iconurl
  /\ \A r1, r2 \in projects :
       (r1.id # r2.id /\ r1.cloudinary_public_id # Null) =>
         r1.cloudinary_public_id # r2.cloudinary_public_id

\* a step removes no asset that a row other than the request's references
NoForeignDelete ==
  /\ \A f \in skillFiles \ skillFiles' :
       ~\E row \in skills : row.id # mreq.id /\ row.iconurl = f
  /\ \A a \in cloudinary \ cloudinary' :
       ~\E row \in projects : row.id # mreq.id /\ row.cloudinary_public_id = a

\* C14: in every reachable state no asset is referenced by two rows, and no
\* step of an update or delete removes an asset another row references.
C14_ExclusiveOwnership == []NoSharedAsset /\ [][NoForeignDelete]_vars

\* the characters of s that are in [a-z0-9], in order
AlnumOf(s) == SelectSeq(s, IsAlnum)

\* C15: the slug of a title has only characters of [a-z0-9-], neither starts
\* nor ends with a hyphen, has no two adjacent hyphens, and keeps the
\* alphanumeric characters of the lower-cased title in their order.
C15_SlugShape ==
  applied = "slug" =>
    /\ \A i \in DOMAIN outSlug : IsAlnum(outSlug[i]) \/ outSlug[i] = "-"
    /\ outSlug # << >> => (outSlug[1] # "-" /\ outSlug[Len(outSlug)] # "-")
    /\ \A i \in 1..(Len(outSlug) - 1) : ~(outSlug[i] = "-" /\ outSlug[i + 1] = "-")
    /\ AlnumOf(outSlug) = AlnumOf(ToLowerCase(inTitle))

\* a title with an upper-case letter and a run of two separators between
\* its words
C15_Witness ==
  /\ applied = "slug"
  /\ inTitle = << "A", " ", "!", "b" >>
  /\ outSlug = << "a", "-", "b" >>

\* the row with the fields of a request body set and the update stamped
WithBody(row, body, t) ==
  [f \in DOMAIN row |->
     IF f \in DOMAIN body THEN body[f] ELSE IF f = "updated_at" THEN t ELSE row[f]]

\* the statement of an update request runs
UpdateRuns(r) ==
  breq[r].op = "update" /\ breq[r].pc = "update" /\ breq'[r].pc = "done"

\* C16: when the statement of a blog update runs, the addressed post gets the
\* fields of the request body and the update timestamp, and every other field
\* and every other post stays as it was.
C16_ExactFields ==
  [][\A r \in BlogReqs :
       UpdateRuns(r) =>
         blog_posts' = {IF row.id = breq[r].id THEN WithBody(row, breq[r].body, now)
                        ELSE row : row \in blog_posts}]_vars

\* two like calls on the same post, both answered
BothLiked(a, b) ==
  /\ a # b
  /\ breq[a].op = "like" /\ breq[a].pc = "done" /\ breq[a].status = 200
  /\ breq[b].op = "like" /\ breq[b].pc = "done" /\ breq[b].status = 200
  /\ breq[a].id = breq[b].id

\* the like counter of every post is the number of like calls made on it
NoLostLike == \A row \in blog_posts : row.likes = likeCalls[row.id]

\* no two answered calls return the same count, and the counts returned are
\* in the order of the increments
DistinctLikeResults ==
  \A a, b \in BlogReqs :
    BothLiked(a, b) =>
      /\ breq[a].returned # breq[b].returned
      /\ breq[a].after < breq[b].after => breq[a].returned < breq[b].returned

\* C18: no like call on an existing post is lost, and no two like calls on
\* the same post return the same count.
C18_NoLostNoDuplicate == NoLostLike /\ DistinctLikeResults

C20_NoOrphanComment ==
  \A c \in blog_comments : \E row \in blog_posts : row.id = c.post_id

\* the post that had a comment has been deleted while another post keeps one
C20_Witness ==
  /\ \E r \in BlogReqs :
       breq[r].op = "delete" /\ breq[r].pc = "done" /\ breq[r].id = EarlierPost.id
  /\ PostsWithId(EarlierPost.id) = {}
  /\ blog_comments # {}

\* a login answered by the handler and not by its catch block
Answered(r) == login[r].pc = "done" /\ login[r].resp.status \notin {0, 500}

KnownEmailWrongPassword(r) ==
  /\ Answered(r) /\ login[r].email = ADMIN_EMAIL
  /\ login[r].password \notin {"", "admin123"}

UnknownEmail(r) ==
  /\ Answered(r) /\ login[r].email \notin {"", ADMIN_EMAIL}
  /\ login[r].password # ""

\* C17: a login with the known email and a wrong password is answered 401,
\* with the status and body a login with an unknown email gets, and neither
\* answer carries a token.
C17_SameRefusal ==
  \A a, b \in LoginReqs :
    /\ KnownEmailWrongPassword(a) =>
         /\ login[a].resp.status = 401
         /\ "token" \notin DOMAIN login[a].resp.body
    /\ UnknownEmail(b) => "token" \notin DOMAIN login[b].resp.body
    /\ (KnownEmailWrongPassword(a) /\ UnknownEmail(b)) => login[a].resp = login[b].resp

\* both refusals have been given, one in each request slot
C17_Witness ==
  /\ KnownEmailWrongPassword(1)
  /\ UnknownEmail(2)
  /\ login[1].resp.status = 401

\* C25: in a project update with a new image, a step that removes the
\* previous asset from the media store is taken only when the asset of the
\* new file is already stored, and the row changes only after that.
C25_StoreBeforeDelete ==
  [][(mreq.op = "projectPut" /\ mreq.file # Null) =>
       /\ (mreq.existing \in cloudinary /\ mreq.existing \notin cloudinary') =>
            mreq.file \in cloudinary
       /\ projects' # projects => mreq.file \in cloudinary]_vars

\* C29: when a project create or update that uploaded a file has terminated,
\* with whatever status, the local copy of the file is gone.
C29_TempFileRemoved ==
  (/\ mreq.pc = "done" /\ mreq.op \in {"projectPost", "projectPut"}
   /\ mreq.file # Null) =>
    mreq.file \notin projectTmp

\* request r receives, in this step, a 200 answer built from a stored row
ServesStored(r) ==
  /\ pc[r] # "done" /\ pc'[r] = "done" /\ resp'[r].status = 200
  /\ resp'[r].body.cached = TRUE

\* the answer carries a stored row that is older than the threshold
OlderThanThreshold(body) ==
  \E row \in github_stats :
    CarriesRow(body, row) /\ now - row.last_updated >= CACHE_MINUTES

\* C28 as stated: a row older than the threshold is served only by a request
\* that issued the upstream calls and saw a mandatory one fail; and the upsert
\* step of a request whose mandatory calls succeeded answers with fresh data
\* tagged not cached and leaves that data as the stored row, young enough to
\* be served from the cache.
C28_Original ==
  /\ [][\A r \in Reqs :
          (ServesStored(r) /\ OlderThanThreshold(resp'[r].body)) =>
            calls[r] > 0 /\ apiError[r] # NoError]_vars
  /\ [][\A r \in Reqs :
          (pc[r] = "upsert" /\ pc'[r] = "done") =>
            /\ resp'[r].status = 200 /\ resp'[r].body.cached = FALSE
            /\ \E row \in github_stats' :
                 /\ RowMatches(row, stats[r])
                 /\ now - row.last_updated < CACHE_MINUTES]_vars

\* C28 amended: a row older than the threshold is served only tagged stale, and
\* only by a request that found no fresh row and either had no token configured
\* (it issues no upstream call) or saw a mandatory upstream call fail; a
\* request whose mandatory calls succeeded ends in the upsert step with a 200
\* carrying its own data tagged not cached; when the upsert statement succeeds
\* the stored row is that data, young enough to be served from the cache, and
\* when it fails the table stays as it was.
C28_StaleOnlyWithoutRefresh ==
  /\ [][\A r \in Reqs :
          (ServesStored(r) /\ OlderThanThreshold(resp'[r].body)) =>
            /\ "stale" \in DOMAIN resp'[r].body /\ resp'[r].body.stale = TRUE
            /\ \/ ~tokenConfigured /\ calls[r] = 0
               \/ tokenConfigured /\ calls[r] > 0 /\ apiError[r] # NoError]_vars
  /\ [][\A r \in Reqs :
          (pc[r] = "upsert" /\ pc'[r] = "done") =>
            /\ apiError[r] = NoError
            /\ resp'[r].status = 200 /\ resp'[r].body.cached = FALSE
            /\ \A f \in DOMAIN stats[r] : resp'[r].body[f] = stats[r][f]
            /\ wrote'[r] =>
                 \E row \in github_stats' :
                   /\ RowMatches(row, stats[r])
                   /\ now - row.last_updated < CACHE_MINUTES
            /\ ~wrote'[r] => github_stats' = github_stats]_vars

C28_Witness ==
  \E r, q \in Reqs :
    /\ pc[r] = "done" /\ resp[r].status = 200 /\ resp[r].body.cached = TRUE
    /\ "stale" \in DOMAIN resp[r].body /\ apiError[r] # NoError
    /\ pc[q] = "done" /\ wrote[q] /\ resp[q].body.cached = FALSE
    /\ \E row \in github_stats :
         CarriesRow(resp[r].body, row) /\ RowMatches(row, stats[q])

\* the routes that create, update or delete a project, a skill, a blog post
\* or a journey item, or change a password
AdminOps == DOMAIN RouteChain \ {"blogLike", "contactPost"}

\* the request in flight carried a bearer token that verifies and names a row
\* users holds now, and that row has the role admin or the admin's email
CarriesAdminToken ==
  /\ areq.token.kind = "valid"
  /\ \E u \in users :
       /\ u.id = DecodedId(areq.token) /\ u.id = areq.user.id
       /\ u.role = "admin" \/ u.email = ADMIN_EMAIL

\* C21: the handler of a route that creates, updates or deletes a project, a
\* skill, a blog post or a journey item, or changes a password, is entered only
\* by a request whose bearer token verifies and names an existing user row with
\* the role admin or the admin's email; and users and journey_items change
\* only in a step of such a request after it has entered its handler, so a
\* request that is refused changes nothing.
C21_OnlyAdminMutates ==
  /\ []((areq.op \in AdminOps /\ areq.reached) => CarriesAdminToken)
  /\ [][(users' # users \/ journey_items' # journey_items) =>
          /\ areq.op \in AdminOps /\ areq.reached
          /\ CarriesAdminToken]_vars

C21_Witness ==
  /\ journey_items # {}
  /\ \E u \in users : u.role = "user" /\ u.email = ADMIN_EMAIL
  /\ areq.op = "changePassword" /\ areq.pc = "done" /\ ~areq.reached
  /\ areq.resp.status = 403

\* C24: a journey create or update that entered its handler with the title or
\* the type missing or empty has been answered 400 when it is done.
C24_MissingFieldRejected ==
  (/\ areq.op \in {"journeyPost", "journeyPut"} /\ areq.reached /\ areq.pc = "done"
   /\ Falsy(areq.body.title) \/ Falsy(areq.body.type)) =>
    areq.resp.status = 400

\* the password stored for the admin's email is the hash of the default
AdminHasDefaultPassword(table) ==
  /\ \E u \in table : u.email = ADMIN_EMAIL
  /\ \A u \in table :
       u.email = ADMIN_EMAIL => u.password = BcryptHash(DefaultAdminPassword)

\* the login in slot r is answered 200 in this step
LoginAccepted(r) ==
  login[r].pc = "compare" /\ login'[r].pc = "done" /\ login'[r].resp.status = 200

C22_StoredBeforeMail ==
  /\ [](\A r \in ContactReqs :
          (\E m \in Mails : creq[r].mail[m] # "none") =>
            \E row \in contact_messages :
              row.id = creq[r].id /\ row.body = creq[r].body)
  /\ [][contact_messages \subseteq contact_messages']_vars

C22_Witness ==
  \E r \in ContactReqs :
    /\ creq[r].pc = "done" /\ creq[r].resp.status = 500
    /\ creq[r].mail["admin"] = "failed" /\ creq[r].mail["user"] = "sent"
    /\ \E row \in contact_messages : row.id = creq[r].id

\* C23: the body of every failure answer of the chat route has a message
\* field.
C23_FailureHasMessage ==
  \A r \in ChatReqs :
    chatreq[r].resp.status >= 400 => "message" \in DOMAIN chatreq[r].resp.body

\* C26: when no chat request is in flight and an exchange is stored, the row
\* of chat_stats holds the number of stored exchanges as total_messages and
\* the number of distinct session ids among them as unique_sessions.
C26_AggregateMatches ==
  ((\A r \in ChatReqs : chatreq[r].pc = "done") /\ chat_conversations # {}) =>
    \E row \in chat_stats :
      /\ row.total_messages = Cardinality(chat_conversations)
      /\ row.unique_sessions =
           Cardinality({c.session_id : c \in chat_conversations})

\* C27: the total of a blog list answer is the number of published posts that
\* match the category and featured filters of the request, and its pages is
\* that total divided by the page size, rounded up.
C27_TotalMatchesFilters ==
  lreq.resp.status = 200 =>
    LET matching == Cardinality(SelectedPosts(blog_posts, lreq.query))
    IN  /\ lreq.resp.body.pagination.total = matching
        /\ lreq.resp.body.pagination.pages = Ceil(matching, lreq.query.limit)

====
